---------------------------- MODULE Spec2Model ----------------------------
(***************************************************************************)
(* A model of the mini-yaml-rs parser (src/src/parse.rs) and of the        *)
(* printer and projections of src/src/lib.rs.                              *)
(*                                                                         *)
(* Text is a sequence of one-character strings; a byte offset is 0-based   *)
(* as in the Rust code, so the byte at offset i of src is src[i + 1].      *)
(* The parser is a pure function of its input: every method of Parser is   *)
(* an operator from (src, st) to an outcome record, where st is the        *)
(* mutable part of the Parser struct.                                      *)
(***************************************************************************)
EXTENDS Integers, Sequences, FiniteSets, TLC

(***************************************************************************)
(* Characters                                                              *)
(***************************************************************************)
NoByte == ""

LF == "\n"

CR == "\r"

TAB == "\t"

DQ == "\""

SQ == "'"

Digits == {"0", "1", "2", "3", "4", "5", "6", "7", "8", "9"}

NonZeroDigits == Digits \ {"0"}

LowerLetters == {"a", "b", "c", "d", "e", "f", "g", "h", "i", "j", "k", "l", "m",
                 "n", "o", "p", "q", "r", "s", "t", "u", "v", "w", "x", "y", "z"}

UpperLetters == {"A", "B", "C", "D", "E", "F", "G", "H", "I", "J", "K", "L", "M",
                 "N", "O", "P", "Q", "R", "S", "T", "U", "V", "W", "X", "Y", "Z"}

UpperSeq == <<"A", "B", "C", "D", "E", "F", "G", "H", "I", "J", "K", "L", "M",
              "N", "O", "P", "Q", "R", "S", "T", "U", "V", "W", "X", "Y", "Z">>

LowerSeq == <<"a", "b", "c", "d", "e", "f", "g", "h", "i", "j", "k", "l", "m",
              "n", "o", "p", "q", "r", "s", "t", "u", "v", "w", "x", "y", "z">>

\* char::to_lowercase on an ASCII character
ToLowerChar(c) ==
    IF c \in UpperLetters
    THEN LowerSeq[CHOOSE i \in 1..26 : UpperSeq[i] = c]
    ELSE c

\* str::to_lowercase
ToLowercase(s) == [i \in 1..Len(s) |-> ToLowerChar(s[i])]

\* &source[start..end] with 0-based, end-exclusive offsets
Slice(src, start, end) == SubSeq(src, start + 1, end)

Min(a, b) == IF a <= b THEN a ELSE b

RECURSIVE Flatten(_)
\* concatenation of a sequence of texts
Flatten(ts) == IF ts = <<>> THEN <<>> ELSE Head(ts) \o Flatten(Tail(ts))

(***************************************************************************)
(* Yaml values.  Every value is a record of one shape:                     *)
(*   t    the variant: Scalar, String, Int, Float, Bool, Sequence, Mapping *)
(*   s    the text of a leaf (for Int and Float the canonical decimal      *)
(*        text of the number, for Bool "true" or "false")                  *)
(*   kids the elements of a Sequence, or the entries of a Mapping laid     *)
(*        out key1, value1, key2, value2, ... in entry order               *)
(***************************************************************************)
Scalar(s) == [t |-> "Scalar", s |-> s, kids |-> <<>>]

OwnedString(s) == [t |-> "String", s |-> s, kids |-> <<>>]

IntV(s) == [t |-> "Int", s |-> s, kids |-> <<>>]

FloatV(s) == [t |-> "Float", s |-> s, kids |-> <<>>]

BoolV(b) == [t |-> "Bool",
             s |-> IF b THEN <<"t", "r", "u", "e">> ELSE <<"f", "a", "l", "s", "e">>,
             kids |-> <<>>]

SequenceV(elems) == [t |-> "Sequence", s |-> <<>>, kids |-> elems]

MappingV(entries) == [t |-> "Mapping", s |-> <<>>, kids |-> entries]

Nil == [t |-> "Nil", s |-> <<>>, kids |-> <<>>]

\* Entry::new(key, value) pushed at the end of a Vec<Entry>
PushEntryFront(entries, key, value) == <<key, value>> \o entries

PushEntry(entries, key, value) == entries \o <<key, value>>

NumEntries(m) == Len(m.kids) \div 2

EntryKey(m, i) == m.kids[2 * i - 1]

EntryValue(m, i) == m.kids[2 * i]

TypeKey == Scalar(<<"_", "_", "t", "y", "p", "e">>)

ValueKey == Scalar(<<"_", "_", "v", "a", "l", "u", "e">>)

(***************************************************************************)
(* Byte classes (trait ByteExt of the crate's bytes module)                *)
(***************************************************************************)
IsLinebreak(c) == c \in {LF, CR}

IsWs(c) == c \in {" ", TAB}

IsFlowIndicator(c) == c \in {",", "[", "]", "{", "}"}

IsIndicator(c) == c \in {"-", "?", ":", ",", "[", "]", "{", "}", "#", "&", "*",
                         "!", "|", ">", SQ, DQ, "%", "@"}

IsNsChar(c) == c # NoByte /\ ~IsWs(c) /\ ~IsLinebreak(c)

IsFlowContext(ctx) == ctx \in {"FlowIn", "FlowOut", "FlowKey"}

IsBlockContext(ctx) == ctx \in {"BlockIn", "BlockOut", "BlockKey"}

\* ns-plain-safe(c): inside a flow collection the flow indicators are excluded
IsNsPlainSafe(c, ctx) ==
    IF ctx \in {"FlowIn", "FlowKey"}
    THEN IsNsChar(c) /\ ~IsFlowIndicator(c)
    ELSE IsNsChar(c)

\* ns-plain-char: a colon only when a plain-safe byte follows, never a hash
IsNsPlain(c, nxt, ctx) ==
    CASE c = ":" -> nxt # NoByte /\ IsNsPlainSafe(nxt, ctx)
      [] c = "#" -> FALSE
      [] OTHER -> IsNsPlainSafe(c, ctx)

\* the first byte of a scalar: a quote, a non-indicator, or one of ? : -
\* directly followed by a plain-safe byte
IsScalarStart(c, nxt, ctx) ==
    CASE c \in {"?", ":", "-"} -> nxt # NoByte /\ IsNsPlainSafe(nxt, ctx)
      [] c \in {SQ, DQ} -> TRUE
      [] OTHER -> IsNsChar(c) /\ ~IsIndicator(c)

(***************************************************************************)
(* Parser state and outcomes                                               *)
(***************************************************************************)
\* Parser::new: the cursor is on the first byte, no indentation, empty stacks
NewParser(src) ==
    [idx |-> 0, cur |-> src[1], indent |-> 0, expected |-> <<>>, contexts |-> <<>>]

\* Outcomes of a parser method: Ok(value), Err(ParseError), a panic, or no
\* return at all (the method calls itself or loops with an unchanged state)
Ok(v, st) == [k |-> "ok", v |-> v, msg |-> "", st |-> st]

Err(msg, st) == [k |-> "err", v |-> Nil, msg |-> msg, st |-> st]

Panic(msg, st) == [k |-> "panic", v |-> Nil, msg |-> msg, st |-> st]

Hang(st) == [k |-> "hang", v |-> Nil, msg |-> "no progress", st |-> st]

IsOk(r) == r.k = "ok"

\* the ? operator: an outcome that is not Ok is returned at once, an Ok one is
\* handed to the rest of the method
Try(r, Rest(_)) == IF IsOk(r) THEN Rest(r) ELSE r

\* a let binding: the rest of the method sees the bound value
With(v, Rest(_)) == Rest(v)

\* Vec::last of the two stacks; None is NoByte
Last(stack) == IF stack = <<>> THEN NoByte ELSE stack[Len(stack)]

Pop(stack) == SubSeq(stack, 1, Len(stack) - 1)

Context(st) == Last(st.contexts)

PushExpected(st, tok) == [st EXCEPT !.expected = Append(@, tok)]

(***************************************************************************)
(* Cursor                                                                  *)
(***************************************************************************)
CanBump(src, st) == st.idx + 1 < Len(src)

Bump(src, st) ==
    IF CanBump(src, st)
    THEN [st EXCEPT !.idx = @ + 1, !.cur = src[st.idx + 2]]
    ELSE st

\* bump_newline: the stream's next byte is consumed; when it is a line break
\* the one after it becomes current
BumpNewlineOk(src, st) ==
    /\ CanBump(src, st)
    /\ IsLinebreak(src[st.idx + 2]) => st.idx + 2 < Len(src)

BumpNewline(src, st) ==
    IF ~CanBump(src, st) THEN st
    ELSE IF IsLinebreak(src[st.idx + 2])
         THEN Bump(src, [st EXCEPT !.idx = @ + 1])
         ELSE Bump(src, st)

Advance(src, st) ==
    IF CanBump(src, st) THEN Ok(Nil, Bump(src, st))
    ELSE Err("unexpected end of input", st)

Peek(src, st) == IF CanBump(src, st) THEN src[st.idx + 2] ELSE NoByte

AtEnd(src, st) == st.idx = Len(src) - 1

\* bytes.get(idx + n)
ByteAhead(src, st, n) == IF st.idx + n < Len(src) THEN src[st.idx + n + 1] ELSE NoByte


(***************************************************************************)
(* Context stack and expected-token stack                                  *)
(***************************************************************************)
\* start_context: the context pushed for a kind, or "" when the push is refused
ContextForAnyTop(kind, top) ==
    CASE kind = "Flow" -> "FlowIn"
      [] kind = "FlowMapping" -> "FlowKey"
      [] kind = "BlockMapping" -> "BlockKey"
      [] kind = "Block" -> IF top = NoByte THEN "BlockOut" ELSE "BlockIn"

ContextFor(kind, top) ==
    CASE kind = "Flow" -> "FlowIn"
      [] kind = "FlowMapping" -> "FlowKey"
      [] kind = "BlockMapping" -> "BlockKey"
      [] kind = "Block" ->
           IF top = NoByte THEN "BlockOut"
           ELSE IF IsFlowContext(top) THEN NoByte
           ELSE "BlockIn"

StartContext(kind, st) ==
    IF ContextFor(kind, Context(st)) = NoByte
    THEN Err("block collections cannot be values in flow collections", st)
    ELSE Ok(Nil, [st EXCEPT !.contexts = Append(@, ContextFor(kind, Context(st)))])

CtxMatchesFamily(expect, actual) ==
    IF expect \in {"Flow", "FlowMapping"} THEN IsFlowContext(actual)
    ELSE IsBlockContext(actual)

CtxMatches(expect, actual) ==
    CASE expect = "Flow" -> actual \in {"FlowIn", "FlowOut"}
      [] expect = "FlowMapping" -> actual = "FlowKey"
      [] expect = "Block" -> actual \in {"BlockIn", "BlockOut"}
      [] expect = "BlockMapping" -> actual = "BlockKey"

\* end_context: the top context is popped before it is compared
EndContext(expect, st) ==
    IF st.contexts = <<>>
    THEN Err("expected context but no contexts remained", st)
    ELSE IF CtxMatches(expect, Last(st.contexts))
         THEN Ok(Nil, [st EXCEPT !.contexts = Pop(@)])
         ELSE Err("expected but failed to end context",
                  [st EXCEPT !.contexts = Pop(@)])

PopIfMatchKeeps(expect, st) == Ok(Nil, st)

PopIfMatch(expect, st) ==
    IF Last(st.expected) = expect
    THEN Ok(Nil, [st EXCEPT !.expected = Pop(@)])
    ELSE Err("token was not expected", st)

(***************************************************************************)
(* Skipping whitespace, comments and line breaks                           *)
(***************************************************************************)
RECURSIVE SkipToLinebreak(_, _)
SkipToLinebreak(src, st) ==
    IF IsLinebreak(st.cur) \/ ~CanBump(src, st) THEN st
    ELSE SkipToLinebreak(src, Bump(src, st))

ChompComment(src, st) ==
    IF st.cur = "#" THEN SkipToLinebreak(src, Bump(src, st)) ELSE st

RECURSIVE ChompWhitespace(_, _)
ChompWhitespace(src, st) ==
    IF IsWs(st.cur) /\ CanBump(src, st) THEN ChompWhitespace(src, Bump(src, st))
    ELSE st

\* chomp_whitespace followed by chomp_comment
ChompWsComment(src, st) == ChompComment(src, ChompWhitespace(src, st))

\* chomp_indent: the indentation is the number of bytes the cursor moved
ChompIndent(src, st) ==
    LET st1 == ChompWhitespace(src, st)
    IN  [st1 EXCEPT !.indent = st1.idx - st.idx]

RECURSIVE ChompNewlines(_, _)
ChompNewlines(src, st) ==
    IF IsLinebreak(st.cur)
    THEN IF CanBump(src, st) THEN ChompNewlines(src, Bump(src, st))
         ELSE Err("unexpected end of input", st)
    ELSE Ok(Nil, st)

(***************************************************************************)
(* take_while                                                              *)
(***************************************************************************)
\* the closure of parse_scalar for plain scalars: br and pa are the bracket
\* and parenthesis depths after tok has been counted
DepthAfter(depth, tok, open, close) ==
    IF tok = open THEN depth + 1
    ELSE IF tok = close THEN (IF depth - 1 > 0 THEN depth - 1 ELSE 0)
    ELSE depth

\* the closure without the depth rule: is_ns_plain alone decides
AcceptPlainNoDepth(tok, nxt, ctx, br, pa) == IsNsPlain(tok, nxt, ctx)

AcceptPlain(tok, nxt, ctx, br, pa) ==
    IF br > 0 \/ pa > 0
    THEN ~IsLinebreak(tok) /\ tok # "#"
    ELSE IsNsPlain(tok, nxt, ctx)

\* a scan: ok is FALSE when the input ended on an accepted byte (the Err of
\* take_while); s and e are the offsets it returns
Scan(ok, s, e, st, br, pa) == [ok |-> ok, s |-> s, e |-> e, st |-> st, br |-> br, pa |-> pa]

RECURSIVE TakeWhilePlainFrom(_, _, _, _, _, _, _)
TakeWhilePlainFrom(src, st, ctx, br, pa, start, end) ==
    LET br1 == DepthAfter(br, st.cur, "[", "]")
        pa1 == DepthAfter(pa, st.cur, "(", ")")
    IN  IF ~AcceptPlain(st.cur, Peek(src, st), ctx, br1, pa1)
        THEN Scan(TRUE, start, end, st, br1, pa1)
        ELSE IF ~CanBump(src, st)
             THEN Scan(FALSE, start, end + 1, st, br1, pa1)
             ELSE TakeWhilePlainFrom(src, Bump(src, st), ctx, br1, pa1, start, end + 1)

TakeWhilePlain(src, st, ctx, br, pa) ==
    TakeWhilePlainFrom(src, st, ctx, br, pa, st.idx, st.idx)

RECURSIVE TakeWhileNotFrom(_, _, _, _, _)
\* take_while with the closure of a quoted scalar: every byte but the quote
TakeWhileNotFrom(src, st, quote, start, end) ==
    IF st.cur = quote THEN Scan(TRUE, start, end, st, 0, 0)
    ELSE IF ~CanBump(src, st) THEN Scan(FALSE, start, end + 1, st, 0, 0)
    ELSE TakeWhileNotFrom(src, Bump(src, st), quote, start, end + 1)

TakeWhileNot(src, st, quote) == TakeWhileNotFrom(src, st, quote, st.idx, st.idx)

\* slice_range: the end is clamped to the input length; a start beyond the end
\* makes the slice panic
SliceRangeOk(src, start, end) == start <= Min(end, Len(src))

SliceRange(src, start, end) == Slice(src, start, Min(end, Len(src)))

(***************************************************************************)
(* Number syntax of the Rust standard library (str::parse)                 *)
(***************************************************************************)
DigitSeq == <<"0", "1", "2", "3", "4", "5", "6", "7", "8", "9">>

DigitVal(c) == (CHOOSE i \in 1..10 : DigitSeq[i] = c) - 1

AllDigits(ds) == \A i \in 1..Len(ds) : ds[i] \in Digits

Contains(s, c) == \E i \in 1..Len(s) : s[i] = c

RECURSIVE StripLeadingZeros(_)
StripLeadingZeros(ds) ==
    IF ds # <<>> /\ Head(ds) = "0" THEN StripLeadingZeros(Tail(ds)) ELSE ds

RECURSIVE StripTrailingZeros(_)
StripTrailingZeros(ds) ==
    IF ds # <<>> /\ ds[Len(ds)] = "0"
    THEN StripTrailingZeros(SubSeq(ds, 1, Len(ds) - 1))
    ELSE ds

RECURSIVE LexLE(_, _)
\* a <= b for digit strings of the same length
LexLE(a, b) ==
    IF a = <<>> THEN TRUE
    ELSE IF DigitVal(Head(a)) # DigitVal(Head(b))
         THEN DigitVal(Head(a)) < DigitVal(Head(b))
         ELSE LexLE(Tail(a), Tail(b))

\* a <= b for digit strings without leading zeros
MagnitudeLE(a, b) == Len(a) < Len(b) \/ (Len(a) = Len(b) /\ LexLE(a, b))

\* i64::MAX and the magnitude of i64::MIN
I64MaxDigits == <<"9", "2", "2", "3", "3", "7", "2", "0", "3", "6", "8", "5", "4",
                  "7", "7", "5", "8", "0", "7">>

I64MinDigits == <<"9", "2", "2", "3", "3", "7", "2", "0", "3", "6", "8", "5", "4",
                  "7", "7", "5", "8", "0", "8">>

HasSign(s) == s # <<>> /\ s[1] \in {"+", "-"}

IsNegative(s) == s # <<>> /\ s[1] = "-"

Unsigned(s) == IF HasSign(s) THEN Tail(s) ELSE s

\* s.parse::<i64>(): an optional sign and at least one decimal digit, the
\* value within the 64-bit range; v is the decimal text of the value
ParseI64(s) ==
    LET ds == Unsigned(s)
        mag == StripLeadingZeros(ds)
    IN  [ok |-> /\ ds # <<>>
                /\ AllDigits(ds)
                /\ MagnitudeLE(mag, IF IsNegative(s) THEN I64MinDigits ELSE I64MaxDigits),
         v |-> IF mag = <<>> THEN <<"0">>
               ELSE IF IsNegative(s) THEN <<"-">> \o mag ELSE mag]

\* offset of the first exponent letter, 0 when there is none
ExpPos(s) ==
    IF \E i \in 1..Len(s) : s[i] \in {"e", "E"}
    THEN CHOOSE i \in 1..Len(s) : s[i] \in {"e", "E"} /\ \A j \in 1..(i - 1) : s[j] \notin {"e", "E"}
    ELSE 0

DotPos(s) ==
    IF Contains(s, ".")
    THEN CHOOSE i \in 1..Len(s) : s[i] = "." /\ \A j \in 1..(i - 1) : s[j] # "."
    ELSE 0

RECURSIVE DigitsToNat(_)
DigitsToNat(ds) ==
    IF ds = <<>> THEN 0
    ELSE 10 * DigitsToNat(SubSeq(ds, 1, Len(ds) - 1)) + DigitVal(ds[Len(ds)])

RECURSIVE Zeros(_)
Zeros(n) == IF n <= 0 THEN <<>> ELSE <<"0">> \o Zeros(n - 1)

\* the fields of Number ::= (Digit+ | Digit+ . Digit* | Digit* . Digit+) Exp?
FloatParts(s) ==
    LET u == Unsigned(s)
        ep == ExpPos(u)
        mant == IF ep = 0 THEN u ELSE SubSeq(u, 1, ep - 1)
        ex == IF ep = 0 THEN <<>> ELSE SubSeq(u, ep + 1, Len(u))
        dp == DotPos(mant)
    IN  [int |-> IF dp = 0 THEN mant ELSE SubSeq(mant, 1, dp - 1),
         frac |-> IF dp = 0 THEN <<>> ELSE SubSeq(mant, dp + 1, Len(mant)),
         hasExp |-> ep # 0,
         expNeg |-> IsNegative(ex),
         expDigits |-> Unsigned(ex)]

IsFloatNumber(s) ==
    LET p == FloatParts(s)
    IN  /\ AllDigits(p.int) /\ AllDigits(p.frac)
        /\ Len(p.int) + Len(p.frac) > 0
        /\ p.hasExp => (p.expDigits # <<>> /\ AllDigits(p.expDigits))

IsFloatWord(s) ==
    ToLowercase(Unsigned(s)) \in {<<"i", "n", "f">>, <<"n", "a", "n">>,
                                  <<"i", "n", "f", "i", "n", "i", "t", "y">>}

\* the decimal digits of the number without leading and trailing zeros
FloatDigits(s) ==
    StripTrailingZeros(StripLeadingZeros(FloatParts(s).int \o FloatParts(s).frac))

\* an exponent of more than four digits is beyond the range of f64 whatever
\* the digits before it
HugeExp(s) == Len(StripLeadingZeros(FloatParts(s).expDigits)) > 4

\* the number is 0.d1d2... * 10^pt, with d1 the first non-zero digit
FloatPoint(s) ==
    LET p == FloatParts(s)
        all == StripLeadingZeros(p.int \o p.frac)
        ev == DigitsToNat(StripLeadingZeros(p.expDigits))
    IN  Len(all) + (IF p.expNeg THEN 0 - ev ELSE ev) - Len(p.frac)

\* beyond f64::MAX (about 1.8e308) the value is infinite, below the least
\* subnormal (about 4.9e-324) it is zero
FloatOverflows(s) ==
    FloatDigits(s) # <<>> /\ IF HugeExp(s) THEN ~FloatParts(s).expNeg ELSE FloatPoint(s) > 309

FloatUnderflows(s) ==
    FloatDigits(s) = <<>> \/ IF HugeExp(s) THEN FloatParts(s).expNeg ELSE FloatPoint(s) < 0 - 323

\* the text Display prints for the f64: the shortest digits that give the
\* value back, in positional notation.  For a number written with at most 17
\* significant digits these are the digits of the text itself.
FloatText(s) ==
    LET ds == FloatDigits(s)
        pt == FloatPoint(s)
        sign == IF IsNegative(s) THEN <<"-">> ELSE <<>>
    IN  IF FloatUnderflows(s) THEN sign \o <<"0">>
        ELSE IF FloatOverflows(s) THEN sign \o <<"i", "n", "f">>
        ELSE IF pt >= Len(ds) THEN sign \o ds \o Zeros(pt - Len(ds))
        ELSE IF pt > 0 THEN sign \o SubSeq(ds, 1, pt) \o <<".">> \o SubSeq(ds, pt + 1, Len(ds))
        ELSE sign \o <<"0", ".">> \o Zeros(0 - pt) \o ds

\* s.parse::<f64>(); v is the text Display prints for the value
ParseF64(s) ==
    IF IsFloatWord(s)
    THEN [ok |-> TRUE,
          v |-> IF ToLowercase(Unsigned(s)) = <<"n", "a", "n">> THEN <<"N", "a", "N">>
                ELSE (IF IsNegative(s) THEN <<"-">> ELSE <<>>) \o <<"i", "n", "f">>]
    ELSE IF IsFloatNumber(s) THEN [ok |-> TRUE, v |-> FloatText(s)]
    ELSE [ok |-> FALSE, v |-> <<>>]

(***************************************************************************)
(* Type inference of plain scalars                                         *)
(***************************************************************************)
TrueWords == {<<"t", "r", "u", "e">>, <<"y", "e", "s">>, <<"o", "n">>}

FalseWords == {<<"f", "a", "l", "s", "e">>, <<"n", "o">>, <<"o", "f", "f">>}

\* parse_bool: "true", "false" or "none"
ParseBool(s) ==
    IF ToLowercase(s) \in TrueWords THEN "true"
    ELSE IF ToLowercase(s) \in FalseWords THEN "false"
    ELSE "none"

InferNoContainsCheck(s) ==
    IF ParseBool(s) # "none" THEN BoolV(ParseBool(s) = "true")
    ELSE IF ParseI64(s).ok THEN IntV(ParseI64(s).v)
    ELSE IF ParseF64(s).ok THEN FloatV(ParseF64(s).v)
    ELSE Scalar(s)

InferScalarType(s) ==
    IF ParseBool(s) # "none" THEN BoolV(ParseBool(s) = "true")
    ELSE IF ParseI64(s).ok THEN IntV(ParseI64(s).v)
    ELSE IF (Contains(s, ".") \/ Contains(s, "e") \/ Contains(s, "E")) /\ ParseF64(s).ok
         THEN FloatV(ParseF64(s).v)
    ELSE Scalar(s)

(***************************************************************************)
(* parse_scalar                                                            *)
(***************************************************************************)
\* a quoted scalar: the bytes between the quotes, never type-inferred
QuotedInferred(src, start, end) == InferScalarType(SliceRange(src, start, end))

QuotedContent(src, start, end) == Scalar(SliceRange(src, start, end))

ParseQuoted(src, st, quote) ==
    LET r1 == Advance(src, st)
        sc == TakeWhileNot(src, r1.st, quote)
    IN  IF ~IsOk(r1) THEN r1
        ELSE IF ~sc.ok
        THEN Err(IF quote = DQ THEN "unexpected end of input; expected '\"'"
                 ELSE "unexpected end of input; expected '''", sc.st)
        ELSE IF ~SliceRangeOk(src, r1.st.idx, sc.st.idx) THEN Panic("slice", sc.st)
        ELSE Ok(QuotedContent(src, r1.st.idx, sc.st.idx), Bump(src, sc.st))

RECURSIVE PlainLoop(_, _, _, _, _, _)
\* the loop of parse_scalar after the first run: skip blanks and a comment,
\* scan again, stop on an empty run or at the last byte
PlainLoop(src, st, ctx, br, pa, end) ==
    LET sc == TakeWhilePlain(src, ChompWsComment(src, st), ctx, br, pa)
    IN  IF sc.s = sc.e THEN [end |-> end, st |-> sc.st]
        ELSE IF AtEnd(src, sc.st) THEN [end |-> sc.e, st |-> sc.st]
        ELSE PlainLoop(src, sc.st, ctx, sc.br, sc.pa, sc.e)

ParsePlain(src, st) ==
    LET sc == TakeWhilePlain(src, st, Context(st), 0, 0)
        fin == PlainLoop(src, sc.st, Context(st), sc.br, sc.pa, sc.e)
    IN  IF ~SliceRangeOk(src, sc.s, fin.end) THEN Panic("slice", fin.st)
        ELSE Ok(InferScalarType(SliceRange(src, sc.s, fin.end)), fin.st)

ParseScalar(src, st) ==
    IF st.cur = DQ THEN ParseQuoted(src, st, DQ)
    ELSE IF st.cur = SQ THEN ParseQuoted(src, st, SQ)
    ELSE ParsePlain(src, st)

(***************************************************************************)
(* Tags                                                                    *)
(***************************************************************************)
IsTagChar(c) == c \in LowerLetters \cup UpperLetters \cup Digits \cup {"-", "_"}

RECURSIVE SkipTagChars(_, _)
SkipTagChars(src, st) ==
    IF IsTagChar(st.cur) /\ CanBump(src, st) THEN SkipTagChars(src, Bump(src, st))
    ELSE st

\* parse_tag: on success v is Scalar(tag name)
ParseTag(src, st) ==
    LET r1 == Advance(src, st)
        st2 == SkipTagChars(src, r1.st)
    IN  IF ~IsOk(r1) THEN r1
        ELSE IF r1.st.idx = st2.idx THEN Err("expected tag name after '!'", st2)
        ELSE Ok(Scalar(SliceRange(src, r1.st.idx, st2.idx)), ChompWhitespace(src, st2))

\* the wrapping of parse_tagged_value
WrapTagAppend(tag, value) ==
    IF value.t = "Mapping"
    THEN MappingV(value.kids \o <<TypeKey, tag>>)
    ELSE MappingV(<<ValueKey, value, TypeKey, tag>>)

WrapTag(tag, value) ==
    IF value.t = "Mapping"
    THEN MappingV(<<TypeKey, tag>> \o value.kids)
    ELSE MappingV(<<TypeKey, tag, ValueKey, value>>)

(***************************************************************************)
(* Block scalars                                                           *)
(***************************************************************************)
NoIndent == 0 - 1

\* one round of the indicator loop: chomp is -1 (strip), 0 (clip) or 1 (keep)
IsBlockIndicator(c) == c \in {"-", "+"} \cup NonZeroDigits

IndicatorStep(src, h) ==
    IF h.st.cur = "-" THEN [h EXCEPT !.chomp = 0 - 1, !.st = Bump(src, h.st)]
    ELSE IF h.st.cur = "+" THEN [h EXCEPT !.chomp = 1, !.st = Bump(src, h.st)]
    ELSE IF h.st.cur \in NonZeroDigits
         THEN [h EXCEPT !.explicit = DigitVal(h.st.cur), !.st = Bump(src, h.st)]
    ELSE h

\* for _ in 0..2: the loop is left at the first byte that is no indicator
BlockHeader(src, st) ==
    LET h0 == [st |-> st, chomp |-> 0, explicit |-> NoIndent]
    IN  IF IsBlockIndicator(st.cur) THEN IndicatorStep(src, IndicatorStep(src, h0)) ELSE h0

RECURSIVE Repeat(_, _)
Repeat(c, n) == IF n <= 0 THEN <<>> ELSE <<c>> \o Repeat(c, n - 1)

\* A byte above 127 is written xHH, with HH its value in hexadecimal
HexDigits == <<"0", "1", "2", "3", "4", "5", "6", "7", "8", "9",
               "A", "B", "C", "D", "E", "F">>

ByteToken(n) == "x" \o HexDigits[(n \div 16) + 1] \o HexDigits[(n % 16) + 1]

HighBytes == {ByteToken(n) : n \in 128..255}

ByteValue(b) == CHOOSE n \in 128..255 : ByteToken(n) = b

\* the UTF-8 bytes of the char a byte is cast to (u8 as char is the code
\* point with the value of the byte): itself below 128, two bytes above
Utf8OfByteAsChar(b) ==
    IF b \in HighBytes
    THEN <<ByteToken(192 + (ByteValue(b) \div 64)), ByteToken(128 + (ByteValue(b) % 64))>>
    ELSE <<b>>

\* result.push(self.current as char); the result is held as its UTF-8 bytes
PushByte(result, b) == result \o Utf8OfByteAsChar(b)

RECURSIVE CollectLine(_, _, _)
\* while !current.is_linebreak() { push(current); if !bump() { break } }
CollectLine(src, st, result) ==
    IF IsLinebreak(st.cur) THEN [st |-> st, result |-> result]
    ELSE IF ~CanBump(src, st) THEN [st |-> st, result |-> PushByte(result, st.cur)]
    ELSE CollectLine(src, Bump(src, st), PushByte(result, st.cur))

\* the state the content loop is left with
BlockBody(st, result, trailing) == [st |-> st, result |-> result, trailing |-> trailing]

\* the separator pushed before a content line when the result is not empty
LineSeparator(fold) == IF fold THEN " " ELSE LF

DedentKeepsIndent(st, lineIndent) == st

\* a line indented less than the block: self.indent = line_indent; break
Dedent(st, lineIndent) == [st EXCEPT !.indent = lineIndent]

RECURSIVE BlockLoop(_, _, _, _, _, _)
BlockLoop(src, st, fold, result, trailing, contentIndent) ==
    IF IsLinebreak(st.cur)
    THEN IF CanBump(src, st)
         THEN BlockLoop(src, Bump(src, st), fold, result, trailing + 1, contentIndent)
         ELSE BlockBody(st, result, trailing + 1)
    ELSE
      LET st1 == ChompWhitespace(src, st)
          lineIndent == (st1.idx - st.idx) + (IF IsWs(st1.cur) THEN 1 ELSE 0)
          ci == IF contentIndent = NoIndent THEN lineIndent ELSE contentIndent
          blanks == result \o Repeat(LF, trailing)
          sep == IF blanks # <<>> THEN Append(blanks, LineSeparator(fold)) ELSE blanks
          line == CollectLine(src, st1, sep \o Repeat(" ", lineIndent - ci))
      IN  IF IsLinebreak(st1.cur)
          THEN IF CanBump(src, st1)
               THEN BlockLoop(src, Bump(src, st1), fold, result, trailing + 1, contentIndent)
               ELSE BlockBody(st1, result, trailing + 1)
          ELSE IF lineIndent < ci
               THEN BlockBody(Dedent(st1, lineIndent), result, trailing)
          ELSE IF IsLinebreak(line.st.cur) /\ CanBump(src, line.st)
               THEN BlockLoop(src, Bump(src, line.st), fold, line.result, 0, ci)
               ELSE BlockBody(line.st, line.result, 0)

\* a keep that forgets the buffered blank lines
ApplyChompKeepOne(chomp, result, trailing) ==
    IF chomp = 0 - 1 THEN result
    ELSE IF chomp = 0 THEN (IF result # <<>> THEN Append(result, LF) ELSE result)
    ELSE Append(result, LF)

\* Apply chomping
ApplyChomp(chomp, result, trailing) ==
    IF chomp = 0 - 1 THEN result
    ELSE IF chomp = 0 THEN (IF result # <<>> THEN Append(result, LF) ELSE result)
    ELSE Append(result, LF) \o Repeat(LF, trailing)

ParseBlockScalar(src, st, fold) ==
    LET r1 == Advance(src, st)
        h == BlockHeader(src, r1.st)
        st2 == ChompWsComment(src, h.st)
        body == BlockLoop(src, Bump(src, st2), fold, <<>>, 0, h.explicit)
    IN  IF ~IsOk(r1) THEN r1
        ELSE IF ~IsLinebreak(st2.cur)
             THEN Err("expected newline after block scalar indicator", st2)
        ELSE IF ~CanBump(src, st2) THEN Ok(OwnedString(<<>>), st2)
        ELSE Ok(OwnedString(ApplyChomp(h.chomp, body.result, body.trailing)), body.st)

(***************************************************************************)
(* The dispatcher and the collection parsers                               *)
(***************************************************************************)
RECURSIVE Parse(_, _)
RECURSIVE ParseMappingMaybe(_, _, _)
RECURSIVE ParseMaybeScalar(_, _)
RECURSIVE ParseTaggedValue(_, _)
RECURSIVE ParseMappingFlow(_, _)
RECURSIVE MappingFlowLoop(_, _, _)
RECURSIVE MappingFlowValue(_, _, _, _)
RECURSIVE ParseMappingBlock(_, _, _)
RECURSIVE MappingBlockLoop(_, _, _, _)
RECURSIVE MappingBlockEntry(_, _, _, _)
RECURSIVE ParseSequenceFlow(_, _)
RECURSIVE SequenceFlowLoop(_, _, _)
RECURSIVE ParseSequenceBlock(_, _)
RECURSIVE SequenceBlockLoop(_, _, _, _)
RECURSIVE SequenceBlockItem(_, _, _, _)

UnexpectedSymbol(c) ==
    IF c = "}" THEN "unexpected symbol '}'" ELSE "unexpected symbol ']'"

\* the arm of the dispatcher for a document marker: three bumps
SkipMarker(src, st) == Bump(src, Bump(src, Bump(src, st)))

\* the closing brace pushed by the dispatcher is popped when still on top
PopBrace(st) ==
    IF Last(st.expected) = "}" THEN [st EXCEPT !.expected = Pop(@)] ELSE st

Parse(src, st) ==
    IF st.cur = "#"
    THEN With(ChompComment(src, st), LAMBDA st1 :
           IF st1 = st THEN Hang(st) ELSE Parse(src, st1))
    ELSE IF st.cur = "-" /\ ByteAhead(src, st, 1) = "-" /\ ByteAhead(src, st, 2) = "-"
    THEN Parse(src, SkipMarker(src, st))
    ELSE IF IsLinebreak(st.cur)
    THEN Try(ChompNewlines(src, st), LAMBDA r :
           Parse(src, [r.st EXCEPT !.indent = 0]))
    ELSE IF IsScalarStart(st.cur, Peek(src, st), Context(st))
    THEN ParseMaybeScalar(src, st)
    ELSE IF st.cur = "{"
    THEN Try(ParseMappingFlow(src, PushExpected(st, "}")), LAMBDA r :
           ParseMappingMaybe(src, PopBrace(r.st), r.v))
    ELSE IF st.cur = "["
    THEN Try(ParseSequenceFlow(src, st), LAMBDA r :
           ParseMappingMaybe(src, r.st, r.v))
    ELSE IF st.cur = "-"
    THEN IF IsLinebreak(Peek(src, st)) \/ IsWs(Peek(src, st))
         THEN ParseSequenceBlock(src, st)
         ELSE Panic("unreachable", st)
    ELSE IF st.cur \in {"}", "]"}
    THEN Err(UnexpectedSymbol(st.cur), st)
    ELSE IF IsWs(st.cur)
    THEN With(ChompIndent(src, st), LAMBDA st1 :
           IF AtEnd(src, st1) THEN Err("unexpected end of input", st1)
           ELSE Parse(src, st1))
    ELSE IF st.cur = "!" THEN ParseTaggedValue(src, st)
    ELSE IF st.cur = "|" THEN ParseBlockScalar(src, st, FALSE)
    ELSE IF st.cur = ">" THEN ParseBlockScalar(src, st, TRUE)
    ELSE Err("failed to parse at top level", st)

ParseMappingMaybe(src, st, node) ==
    With(ChompWsComment(src, st), LAMBDA st1 :
      IF st1.cur = ":" /\ Last(st1.expected) \notin {"}", ":"}
      THEN ParseMappingBlock(src, st1, node)
      ELSE Ok(node, st1))

ParseMaybeScalar(src, st) ==
    IF IsFlowContext(Context(st)) THEN ParseScalar(src, st)
    ELSE Try(StartContext("BlockMapping", st), LAMBDA r0 :
         Try(ParseScalar(src, r0.st), LAMBDA r1 :
         Try(EndContext("BlockMapping", r1.st), LAMBDA r2 :
           ParseMappingMaybe(src, r2.st, r1.v))))

ParseTaggedValue(src, st) ==
    Try(ParseTag(src, st), LAMBDA rt :
    Try(Parse(src, rt.st), LAMBDA rv :
      Ok(WrapTag(rt.v, rv.v), rv.st)))

(***************************************************************************)
(* Flow mapping                                                            *)
(***************************************************************************)
ParseMappingFlow(src, st) ==
    IF st.cur # "{" THEN Err("expected left brace", st)
    ELSE Try(Advance(src, st), LAMBDA r : MappingFlowLoop(src, r.st, <<>>))

MappingFlowLoop(src, st, entries) ==
    IF st.cur = "}" THEN Ok(MappingV(entries), Bump(src, st))
    ELSE IF st.cur = ","
    THEN Try(Advance(src, st), LAMBDA r : MappingFlowLoop(src, r.st, entries))
    ELSE Try(StartContext("FlowMapping", PushExpected(st, ":")), LAMBDA r1 :
         Try(Parse(src, r1.st), LAMBDA rk :
         Try(EndContext("FlowMapping", rk.st), LAMBDA r2 :
         With(ChompWsComment(src, r2.st), LAMBDA st3 :
           IF st3.cur = ":" THEN MappingFlowValue(src, st3, entries, rk.v)
           ELSE Err("failed to parse flow mapping", st3)))))

\* the arm of parse_mapping_flow taken on the colon after a key
MappingFlowValue(src, st, entries, key) ==
    Try(PopIfMatch(":", st), LAMBDA r4 :
    Try(Advance(src, r4.st), LAMBDA r5 :
    Try(StartContext("Flow", ChompWhitespace(src, r5.st)), LAMBDA r7 :
    Try(Parse(src, r7.st), LAMBDA rv :
    Try(EndContext("Flow", rv.st), LAMBDA r8 :
      MappingFlowLoop(src, ChompWsComment(src, r8.st),
                      PushEntry(entries, key, rv.v)))))))

(***************************************************************************)
(* Block mapping                                                           *)
(***************************************************************************)
ParseMappingBlock(src, st, startKey) ==
    IF IsFlowContext(Context(st))
    THEN Err("block mappings may not appear in flow collections", st)
    ELSE IF st.cur # ":" THEN Err("failed to parse block mapping, expected ':'", st)
    ELSE Try(Advance(src, st), LAMBDA r1 :
         Try(Parse(src, ChompWsComment(src, r1.st)), LAMBDA rv :
           MappingBlockLoop(src, rv.st, st.indent,
                            PushEntry(<<>>, startKey, rv.v))))

MappingBlockLoop(src, st, indent, entries) ==
    IF AtEnd(src, st) THEN Ok(MappingV(entries), st)
    ELSE IF IsLinebreak(st.cur)
    THEN IF BumpNewlineOk(src, st)
         THEN MappingBlockLoop(src, BumpNewline(src, [st EXCEPT !.indent = 0]), indent, entries)
         ELSE Ok(MappingV(entries), BumpNewline(src, [st EXCEPT !.indent = 0]))
    ELSE IF IsWs(st.cur) THEN MappingBlockLoop(src, ChompIndent(src, st), indent, entries)
    ELSE IF st.cur = "#" THEN MappingBlockLoop(src, ChompComment(src, st), indent, entries)
    ELSE IF st.indent < indent THEN Ok(MappingV(entries), st)
    ELSE MappingBlockEntry(src, st, indent, entries)

\* the last arm of the loop of parse_mapping_block: one more key and value
MappingBlockEntry(src, st, indent, entries) ==
    Try(Parse(src, PushExpected(st, ":")), LAMBDA rk :
    With(ChompWsComment(src, rk.st), LAMBDA st2 :
      IF st2.cur # ":" THEN Err("failed to parse block mapping", st2)
      ELSE Try(PopIfMatch(":", st2), LAMBDA r3 :
           Try(Advance(src, r3.st), LAMBDA r4 :
           Try(Parse(src, ChompWhitespace(src, r4.st)), LAMBDA rv :
             MappingBlockLoop(src, rv.st, indent,
                              PushEntry(entries, rk.v, rv.v)))))))

(***************************************************************************)
(* Flow sequence                                                           *)
(***************************************************************************)
ParseSequenceFlow(src, st) ==
    Try(StartContext("Flow", st), LAMBDA r0 :
      IF st.cur # "[" THEN Err("failed to parse flow sequence", r0.st)
      ELSE Try(Advance(src, r0.st), LAMBDA r1 :
             SequenceFlowLoop(src, r1.st, <<>>)))

\* the closing bracket: bump, end the Flow context, return the elements
SequenceFlowClose(src, st, elements) ==
    Try(EndContext("Flow", Bump(src, st)), LAMBDA r :
      Ok(SequenceV(elements), r.st))

\* what follows an element of a flow sequence
SequenceFlowNext(src, st, elements) ==
    IF st.cur = ","
    THEN (IF CanBump(src, st) THEN SequenceFlowLoop(src, Bump(src, st), elements)
          ELSE Err("unexpected end of input", st))
    ELSE IF st.cur = "#" THEN SequenceFlowLoop(src, ChompComment(src, st), elements)
    ELSE IF st.cur = "]" THEN SequenceFlowClose(src, st, elements)
    ELSE Err("failed to parse flow sequence", st)

SequenceFlowLoop(src, st, elements) ==
    IF st.cur = "]" THEN SequenceFlowClose(src, st, elements)
    ELSE IF IsWs(st.cur)
    THEN With(ChompWhitespace(src, st), LAMBDA st1 :
           IF st1 = st THEN Hang(st) ELSE SequenceFlowLoop(src, st1, elements))
    ELSE IF st.cur = "#"
    THEN With(ChompComment(src, st), LAMBDA st1 :
           IF st1 = st THEN Hang(st) ELSE SequenceFlowLoop(src, st1, elements))
    ELSE Try(Parse(src, st), LAMBDA re :
           SequenceFlowNext(src, ChompWhitespace(src, re.st),
                            Append(elements, re.v)))

(***************************************************************************)
(* Block sequence                                                          *)
(***************************************************************************)
ParseSequenceBlock(src, st) ==
    IF IsFlowContext(Context(st))
    THEN Err("block sequences may not appear in flow collections", st)
    ELSE Try(StartContext("Block", st), LAMBDA r0 :
           IF st.cur # "-" THEN Err("failed to parse block sequence", r0.st)
           ELSE Try(SequenceBlockLoop(src, r0.st, st.indent, <<>>), LAMBDA body :
                Try(EndContext("Block", body.st), LAMBDA r2 :
                  Ok(body.v, r2.st))))

SequenceBlockLoop(src, st, indent, seq) ==
    IF AtEnd(src, st) THEN Ok(SequenceV(seq), st)
    ELSE IF st.cur = "#" THEN SequenceBlockLoop(src, ChompComment(src, st), indent, seq)
    ELSE IF IsLinebreak(st.cur)
    THEN IF BumpNewlineOk(src, st)
         THEN SequenceBlockLoop(src, BumpNewline(src, [st EXCEPT !.indent = 0]), indent, seq)
         ELSE Ok(SequenceV(seq), BumpNewline(src, [st EXCEPT !.indent = 0]))
    ELSE IF IsWs(st.cur) THEN SequenceBlockLoop(src, ChompIndent(src, st), indent, seq)
    ELSE IF st.indent < indent THEN Ok(SequenceV(seq), st)
    ELSE IF st.cur = "-" THEN SequenceBlockItem(src, st, indent, seq)
    ELSE IF st.indent = indent THEN Ok(SequenceV(seq), st)
    ELSE Err("expected sequence item", st)

DashIndentKept(indent) == indent

\* the item after a dash and a blank: its content is at the indentation plus two
DashIndent(indent) == indent + 2

\* one item of a block sequence: pushed at the end of the vector
PushItemFront(seq, node) == <<node>> \o seq

PushItem(seq, node) == Append(seq, node)

\* the node parsed at st is pushed and the loop goes on
SequenceBlockPush(src, st, indent, seq) ==
    Try(Parse(src, st), LAMBDA rn :
      SequenceBlockLoop(src, rn.st, indent, PushItem(seq, rn.v)))

\* a dash followed by a line break: the item is on the next line, unless that
\* line is indented less than the sequence
SequenceBlockNextLine(src, st, indent, seq) ==
    IF IsWs(st.cur)
    THEN With(ChompIndent(src, st), LAMBDA st4 :
           IF st4.indent < indent THEN Ok(SequenceV(seq), st4)
           ELSE SequenceBlockPush(src, st4, indent, seq))
    ELSE IF 0 < indent THEN Ok(SequenceV(seq), st)
    ELSE SequenceBlockPush(src, st, indent, seq)

\* the arm of the loop of parse_sequence_block taken on a dash
SequenceBlockItem(src, st, indent, seq) ==
    IF IsLinebreak(ByteAhead(src, st, 1))
    THEN Try(Advance(src, st), LAMBDA r1 :
         Try(Advance(src, r1.st), LAMBDA r2 :
           SequenceBlockNextLine(src, [r2.st EXCEPT !.indent = 0], indent, seq)))
    ELSE IF IsWs(ByteAhead(src, st, 1))
    THEN Try(Advance(src, st), LAMBDA r1 :
         Try(Advance(src, r1.st), LAMBDA r2 :
           SequenceBlockPush(src, [r2.st EXCEPT !.indent = DashIndent(@)], indent, seq)))
    ELSE Err("unexpected '-'", st)

(***************************************************************************)
(* parse (lib.rs)                                                          *)
(***************************************************************************)
NoParser == [idx |-> 0, cur |-> NoByte, indent |-> 0, expected |-> <<>>, contexts |-> <<>>]

\* parse(input): Parser::new fails on the empty input
ParseInput(src) ==
    IF src = <<>> THEN Err("expected input", NoParser)
    ELSE Parse(src, NewParser(src))

(***************************************************************************)
(* lookup_line_col: the position a ParseError carries                      *)
(***************************************************************************)
RECURSIVE LineLens(_, _, _, _)
\* line_lens: the byte length of every line that a line feed ends; i is the
\* 1-based position of the next character
LineLens(src, i, lineLen, acc) ==
    IF i > Len(src) THEN acc
    ELSE IF src[i] = CR
    THEN IF i + 1 <= Len(src) /\ src[i + 1] = LF
         THEN LineLens(src, i + 2, 0, Append(acc, lineLen + 2))
         ELSE LineLens(src, i + 2, lineLen, acc)
    ELSE IF src[i] = LF THEN LineLens(src, i + 1, 0, Append(acc, lineLen + 1))
    ELSE LineLens(src, i + 1, lineLen + 1, acc)

RECURSIVE ScanLines(_, _, _, _)
ScanLines(lens, i, off, errOff) ==
    IF i > Len(lens)
    THEN IF errOff >= off
         THEN <<(IF Len(lens) > 0 THEN Len(lens) - 1 ELSE 0) + 1, errOff - off + 1>>
         ELSE <<0, 0>>
    ELSE IF errOff >= off /\ errOff < off + lens[i] THEN <<i, errOff - off + 1>>
    ELSE ScanLines(lens, i + 1, off + lens[i], errOff)

ErrOffsetAtCursor(idx) == idx

\* err_off = idx + 1
ErrOffset(idx) == idx + 1

\* <<line, col>> of the error raised with the cursor at offset idx
LookupLineCol(src, idx) == ScanLines(LineLens(src, 1, 0, <<>>), 1, 0, ErrOffset(idx))

(***************************************************************************)
(* Display (print_yaml in block style)                                     *)
(***************************************************************************)
INDENT_AMT == 2

PrintIndent(n) == Repeat(" ", n)

IsScalarNode(v) == v.t \in {"Scalar", "String", "Int", "Float", "Bool"}

\* get_tag_name: the first entry is ("__type", Scalar(tag))
IsTagged(v) ==
    /\ v.t = "Mapping"
    /\ Len(v.kids) >= 2
    /\ v.kids[1] = TypeKey
    /\ v.kids[2].t = "Scalar"

TagName(v) == v.kids[2].s

\* the entries after the first one
RestEntries(kids) == SubSeq(kids, 3, Len(kids))

HasValueEntry(v) == Len(v.kids) = 4 /\ v.kids[3] = ValueKey

RECURSIVE PrintYaml(_, _)
RECURSIVE PrintSeqItems(_, _)
RECURSIVE PrintMappingEntries(_, _)
RECURSIVE PrintValueAfterColon(_, _)

PrintValueAfterColon(value, indent) ==
    IF IsTagged(value)
    THEN <<" ", "!">> \o TagName(value) \o
         (IF Len(value.kids) = 2 THEN <<" ", "{", "}", LF>>
          ELSE IF HasValueEntry(value)
               THEN <<" ">> \o PrintYaml(value.kids[4], indent) \o <<LF>>
          ELSE <<LF>> \o PrintMappingEntries(RestEntries(value.kids), indent + INDENT_AMT))
    ELSE IF IsScalarNode(value) THEN <<" ">> \o PrintYaml(value, indent) \o <<LF>>
    ELSE <<LF>> \o PrintYaml(value, indent + INDENT_AMT)

\* the key of an entry and the colon after it
PrintKey(key, indent) ==
    IF IsScalarNode(key) THEN PrintIndent(indent) \o PrintYaml(key, indent)
    ELSE PrintYaml(key, indent + INDENT_AMT) \o PrintIndent(indent)

PrintMappingEntries(kids, indent) ==
    IF kids = <<>> THEN <<>>
    ELSE PrintKey(kids[1], indent) \o <<":">> \o PrintValueAfterColon(kids[2], indent)
         \o PrintMappingEntries(RestEntries(kids), indent)

\* one element of a block sequence after its dash
PrintSeqItem(el, indent) ==
    IF IsScalarNode(el) THEN <<" ">> \o PrintYaml(el, indent) \o <<LF>>
    ELSE IF el.t = "Sequence" THEN <<LF>> \o PrintYaml(el, indent + INDENT_AMT)
    ELSE IF el.kids = <<>> THEN <<" ", "{", "}", LF>>
    ELSE (IF IsScalarNode(el.kids[1]) THEN <<" ">> \o PrintYaml(el.kids[1], indent)
          ELSE <<LF>> \o PrintYaml(el.kids[1], indent + INDENT_AMT + INDENT_AMT)
               \o PrintIndent(indent + INDENT_AMT))
         \o <<":">> \o PrintValueAfterColon(el.kids[2], indent + INDENT_AMT)
         \o PrintMappingEntries(RestEntries(el.kids), indent + INDENT_AMT)

PrintSeqItems(elems, indent) ==
    IF elems = <<>> THEN <<>>
    ELSE PrintIndent(indent) \o <<"-">> \o PrintSeqItem(Head(elems), indent)
         \o PrintSeqItems(Tail(elems), indent)

PrintYaml(node, indent) ==
    IF IsScalarNode(node) THEN node.s
    ELSE IF node.t = "Sequence" THEN PrintSeqItems(node.kids, indent)
    ELSE IF IsTagged(node)
    THEN PrintIndent(indent) \o <<"!">> \o TagName(node) \o
         (IF HasValueEntry(node) THEN <<" ">> \o PrintYaml(node.kids[4], indent) \o <<LF>>
          ELSE <<LF>> \o PrintMappingEntries(RestEntries(node.kids), indent))
    ELSE PrintMappingEntries(node.kids, indent)

\* impl Display for Yaml
Display(v) == PrintYaml(v, 0)

(***************************************************************************)
(* serde_json values.  Every value is a record of the shape of a Yaml      *)
(* value:                                                                  *)
(*   t    the variant: JString, JNumber, JBool, JArray, JObject            *)
(*   s    the text of a string, the text serde_json writes for a number,   *)
(*        "true" or "false" for a boolean                                  *)
(*   kids the elements of an array, or the members of an object laid out   *)
(*        key1, value1, key2, value2, ... with every key a JString         *)
(***************************************************************************)
JString(s) == [t |-> "JString", s |-> s, kids |-> <<>>]

JNumber(s) == [t |-> "JNumber", s |-> s, kids |-> <<>>]

JBool(s) == [t |-> "JBool", s |-> s, kids |-> <<>>]

JArray(elems) == [t |-> "JArray", s |-> <<>>, kids |-> elems]

JObject(members) == [t |-> "JObject", s |-> <<>>, kids |-> members]

\* the keys of the members of an object, in the order of the object
MemberKeys(members) == [i \in 1..(Len(members) \div 2) |-> members[2 * i - 1].s]

\* the member of an object with the key, or 0
MemberAt(members, key) ==
    IF \E i \in 1..(Len(members) \div 2) : members[2 * i - 1].s = key
    THEN CHOOSE i \in 1..(Len(members) \div 2) : members[2 * i - 1].s = key
    ELSE 0

\* Map::insert of a map that keeps the order of insertion: a new key goes to
\* the end, a key the map has keeps its place and takes the new value
MapInsert(members, key, value) ==
    IF MemberAt(members, key) = 0 THEN members \o <<JString(key), value>>
    ELSE [members EXCEPT ![2 * MemberAt(members, key)] = value]

\* the decimal text of a natural number
RECURSIVE NatText(_)
NatText(n) == IF n < 10 THEN <<DigitSeq[n + 1]>> ELSE NatText(n \div 10) \o <<DigitSeq[(n % 10) + 1]>>

IntText(n) == IF n < 0 THEN <<"-">> \o NatText(0 - n) ELSE NatText(n)

\* f64::is_finite of the value Display prints as s
IsFiniteText(s) == Unsigned(s) \notin {<<"i", "n", "f">>, <<"N", "a", "N">>}

\* the text serde_json writes for the finite f64 that Display prints as s:
\* the same digits, positional with a fraction part while the decimal point
\* lies within 16 digits, in scientific notation beyond
F64JsonText(s) ==
    LET ds == FloatDigits(s)
        pt == FloatPoint(s)
        sign == IF IsNegative(s) THEN <<"-">> ELSE <<>>
    IN  IF ds = <<>> THEN sign \o <<"0", ".", "0">>
        ELSE IF pt >= Len(ds) /\ pt <= 16 THEN sign \o ds \o Zeros(pt - Len(ds)) \o <<".", "0">>
        ELSE IF 0 < pt /\ pt <= 16
             THEN sign \o SubSeq(ds, 1, pt) \o <<".">> \o SubSeq(ds, pt + 1, Len(ds))
        ELSE IF 0 - 5 < pt /\ pt <= 0 THEN sign \o <<"0", ".">> \o Zeros(0 - pt) \o ds
        ELSE IF Len(ds) = 1 THEN sign \o ds \o <<"e">> \o IntText(pt - 1)
        ELSE sign \o <<ds[1], ".">> \o Tail(ds) \o <<"e">> \o IntText(pt - 1)

\* Number::from_f64(f).unwrap_or_else(|| 0.into())
NumberFromF64(s) == IF IsFiniteText(s) THEN JNumber(F64JsonText(s)) ELSE JNumber(<<"0">>)

\* a character of a string as serde_json writes it between the quotes
EscapeChar(c) ==
    IF c = DQ THEN <<"\\", DQ>>
    ELSE IF c = "\\" THEN <<"\\", "\\">>
    ELSE IF c = LF THEN <<"\\", "n">>
    ELSE IF c = CR THEN <<"\\", "r">>
    ELSE IF c = TAB THEN <<"\\", "t">>
    ELSE <<c>>

RECURSIVE EscapeJson(_)
EscapeJson(s) == IF s = <<>> THEN <<>> ELSE EscapeChar(Head(s)) \o EscapeJson(Tail(s))

\* Value::to_string: the compact text of a JSON value
RECURSIVE JsonText(_)
RECURSIVE JsonTexts(_, _)
JsonTexts(kids, pairs) ==
    IF kids = <<>> THEN <<>>
    ELSE JsonText(Head(kids))
         \o (IF Len(kids) = 1 THEN <<>>
             ELSE IF pairs /\ Len(kids) % 2 = 0 THEN <<":">> ELSE <<",">>)
         \o JsonTexts(Tail(kids), pairs)

JsonText(j) ==
    IF j.t = "JString" THEN <<DQ>> \o EscapeJson(j.s) \o <<DQ>>
    ELSE IF j.t = "JArray" THEN <<"[">> \o JsonTexts(j.kids, FALSE) \o <<"]">>
    ELSE IF j.t = "JObject" THEN <<"{">> \o JsonTexts(j.kids, TRUE) \o <<"}">>
    ELSE j.s

(***************************************************************************)
(* Yaml::to_json                                                           *)
(***************************************************************************)
RECURSIVE ToJson(_)
RECURSIVE JsonElements(_)
RECURSIVE JsonMembers(_, _)

\* the text of an entry's key as the key of an object
JsonKey(key) ==
    IF key.t \in {"Scalar", "Int", "Float", "Bool"} THEN key.s
    ELSE JsonText(ToJson(key))

JsonElementsReversed(seq) ==
    IF seq = <<>> THEN <<>> ELSE JsonElements(Tail(seq)) \o <<ToJson(Head(seq))>>

\* seq.iter().map(|item| item.to_json()).collect()
JsonElements(seq) ==
    IF seq = <<>> THEN <<>> ELSE <<ToJson(Head(seq))>> \o JsonElements(Tail(seq))

\* the loop over the entries of a Mapping, map the object built so far
JsonMembers(kids, map) ==
    IF kids = <<>> THEN map
    ELSE JsonMembers(RestEntries(kids), MapInsert(map, JsonKey(kids[1]), ToJson(kids[2])))

ToJson(v) ==
    IF v.t \in {"Scalar", "String"} THEN JString(v.s)
    ELSE IF v.t = "Int" THEN JNumber(v.s)
    ELSE IF v.t = "Float" THEN NumberFromF64(v.s)
    ELSE IF v.t = "Bool" THEN JBool(v.s)
    ELSE IF v.t = "Sequence" THEN JArray(JsonElements(v.kids))
    ELSE JObject(JsonMembers(v.kids, <<>>))

(***************************************************************************)
(* Yaml::to_mx                                                             *)
(***************************************************************************)
NameName == <<"_", "_", "n", "a", "m", "e">>

ContentName == <<"_", "_", "c", "o", "n", "t", "e", "n", "t">>

ErrorName == <<"+", "e", "r", "r", "o", "r">>

\* what a projection returns: a JSON value, or a panic
JsonOk(j) == [k |-> "ok", v |-> j]

JsonPanic == [k |-> "panic", v |-> Nil]

JsonNotRun == [k |-> "none", v |-> Nil]

\* str::find(c): the offset of the first c, or -1
FindChar(s, c) ==
    IF Contains(s, c) THEN (CHOOSE i \in 1..Len(s) : s[i] = c /\ \A j \in 1..(i - 1) : s[j] # c) - 1
    ELSE 0 - 1

\* str::rfind("]("): the offset of the last "](", or -1
RFindSep(s) ==
    IF \E i \in 1..(Len(s) - 1) : s[i] = "]" /\ s[i + 1] = "("
    THEN (CHOOSE i \in 1..(Len(s) - 1) :
              /\ s[i] = "]" /\ s[i + 1] = "("
              /\ \A j \in (i + 1)..(Len(s) - 1) : ~(s[j] = "]" /\ s[j + 1] = "(")) - 1
    ELSE 0 - 1

EndsWith(s, c) == s # <<>> /\ s[Len(s)] = c

\* &key[start..end] panics unless start <= end <= len
StrRangeOk(s, start, end) == start <= end /\ end <= Len(s)

MxNone == [k |-> "none", name |-> <<>>, label |-> <<>>, hasValue |-> FALSE, value |-> <<>>]

MxPanic == [MxNone EXCEPT !.k = "panic"]

\* Some((name_part, bracket_content, paren_content)) once the offsets are
\* found: the bracket runs from bs to be, the parentheses from ps to the end
MxSome(key, bs, be, hasValue, ps) ==
    IF ~StrRangeOk(key, bs + 1, be) \/ (hasValue /\ ~StrRangeOk(key, ps, Len(key) - 1))
    THEN MxPanic
    ELSE [k |-> "some",
          name |-> Slice(key, 0, bs),
          label |-> Slice(key, bs + 1, be),
          hasValue |-> hasValue,
          value |-> IF hasValue THEN Slice(key, ps, Len(key) - 1) ELSE <<>>]

\* parse_mx_key after strip_prefix('+') and key.find('['): bs is the offset of
\* the first '['
ParseMxKeyFrom(key, bs) ==
    IF \E c \in {"]", "(", ")"} : Contains(Slice(key, 0, bs), c) THEN MxNone
    ELSE IF EndsWith(key, ")")
    THEN With(RFindSep(Slice(key, bs + 1, Len(key))),
              LAMBDA sep : IF sep < 0 THEN MxNone
                           ELSE MxSome(key, bs, bs + 1 + sep, TRUE, bs + 1 + sep + 2))
    ELSE IF EndsWith(key, "]") THEN MxSome(key, bs, Len(key) - 1, FALSE, 0)
    ELSE MxNone

ParseMxKeyBody(key) ==
    IF FindChar(key, "[") < 0 THEN MxNone ELSE ParseMxKeyFrom(key, FindChar(key, "["))

ParseMxKey(key) ==
    IF key # <<>> /\ Head(key) = "+" THEN ParseMxKeyBody(Tail(key)) ELSE MxNone

\* make_mx_error
MakeMxError(message, yamlContent) ==
    JObject(MapInsert(<<>>, ErrorName,
        JObject(MapInsert(MapInsert(<<>>, NameName, JString(message)),
                          ValueKey.s, JString(yamlContent)))))

TopLevelMessage == <<"Top level value must be an object">>

KeyMessage(key) ==
    <<"Key '">> \o key \o <<"' does not match expected format +name[label](value)">>

\* the object an entry's value becomes: the value itself when it is an
\* object, else an object holding it as "__content"
MxValueObject(j) == IF j.t = "JObject" THEN j.kids ELSE MapInsert(<<>>, ContentName, j)

\* value_obj after the inserts of "__name" and "__value"
MxMember(parts, valueObj) ==
    IF parts.hasValue
    THEN MapInsert(MapInsert(valueObj, NameName, JString(parts.label)),
                   ValueKey.s, JString(parts.value))
    ELSE MapInsert(valueObj, NameName, JString(parts.label))

MxFailKeepsEntries(result, message, yamlContent) ==
    JsonOk(JObject(MapInsert(result, ErrorName, MakeMxError(message, yamlContent).kids[2])))

\* return Self::make_mx_error(..): the object built so far is dropped
MxFail(result, message, yamlContent) == JsonOk(MakeMxError(message, yamlContent))

\* one round of the loop over the entries: key is the text of the entry's
\* key, parts what parse_mx_key makes of it, result the object built so far,
\* yamlContent the text of self.to_string()
RECURSIVE MxLoop(_, _, _)
MxEntry(yamlContent, kids, result, key, parts) ==
    IF parts.k = "some"
    THEN MxLoop(yamlContent, RestEntries(kids),
                MapInsert(result, <<"+">> \o parts.name,
                          JObject(MxMember(parts, MxValueObject(ToJson(kids[2]))))))
    ELSE IF parts.k = "panic" THEN JsonPanic
    ELSE MxFail(result, KeyMessage(key), yamlContent)

MxLoop(yamlContent, kids, result) ==
    IF kids = <<>> THEN JsonOk(JObject(result))
    ELSE With(JsonKey(kids[1]),
              LAMBDA key : MxEntry(yamlContent, kids, result, key, ParseMxKey(key)))

ToMxOf(v, yamlContent) ==
    IF v.t # "Mapping" THEN MxFail(<<>>, TopLevelMessage, yamlContent)
    ELSE MxLoop(yamlContent, v.kids, <<>>)

ToMx(v) == ToMxOf(v, Display(v))

(***************************************************************************)
(* The program as a state machine: a document is handed to parse, the      *)
(* tree it returns is printed with Display, and the printed text is parsed *)
(* again; or the tree is projected with to_json or with to_mx.             *)
(***************************************************************************)
VARIABLES shape, input, pc, outcome, text, again, json

vars == <<shape, input, pc, outcome, text, again, json>>

\* nothing returned yet
NotRun == [k |-> "none", v |-> Nil, msg |-> "", st |-> NoParser]

\* the state before the call of parse, for a document built from shape sh
Start(sh, doc) ==
    /\ shape = sh
    /\ input = doc
    /\ pc = "ready"
    /\ outcome = NotRun
    /\ text = <<>>
    /\ again = NotRun
    /\ json = JsonNotRun

\* parse(input)
DoParse ==
    /\ pc = "ready"
    /\ outcome' = ParseInput(input)
    /\ pc' = "parsed"
    /\ UNCHANGED <<shape, input, text, again, json>>

\* format!("{}", yaml) on the tree parse returned
DoPrint ==
    /\ pc = "parsed"
    /\ IsOk(outcome)
    /\ text' = Display(outcome.v)
    /\ pc' = "printed"
    /\ UNCHANGED <<shape, input, outcome, again, json>>

\* parse(text)
DoReparse ==
    /\ pc = "printed"
    /\ again' = ParseInput(text)
    /\ pc' = "reparsed"
    /\ UNCHANGED <<shape, input, outcome, text, json>>

\* yaml.to_json() on the tree parse returned
DoToJson ==
    /\ pc = "parsed"
    /\ IsOk(outcome)
    /\ json' = JsonOk(ToJson(outcome.v))
    /\ pc' = "json"
    /\ UNCHANGED <<shape, input, outcome, text, again>>

\* yaml.to_mx() on the tree parse returned
DoToMx ==
    /\ pc = "parsed"
    /\ IsOk(outcome)
    /\ json' = ToMx(outcome.v)
    /\ pc' = "mx"
    /\ UNCHANGED <<shape, input, outcome, text, again>>

Next == DoParse \/ DoPrint \/ DoReparse \/ DoToJson \/ DoToMx

(***************************************************************************)
(* Documents with a mapping: entries written in block or in flow style     *)
(***************************************************************************)
\* the most entries a generated mapping has
MaxEntries == 3

MapKeys == {<<"a">>, <<"b">>}

MapValueKinds == {"int", "word", "nested"}

\* the text of a value and the tree it stands for
MapValueText(kind) ==
    CASE kind = "int" -> <<"1">>
      [] kind = "word" -> <<"x">>
      [] kind = "nested" -> <<"{", "b", ":", " ", "x", ",", " ", "b", ":", " ", "1", "}">>

MapValueTree(kind) ==
    CASE kind = "int" -> IntV(<<"1">>)
      [] kind = "word" -> Scalar(<<"x">>)
      [] kind = "nested" -> MappingV(<<Scalar(<<"b">>), Scalar(<<"x">>),
                                       Scalar(<<"b">>), IntV(<<"1">>)>>)

MapEntries == [key : MapKeys, kind : MapValueKinds]

MapEntryLists == UNION {[1..n -> MapEntries] : n \in 1..MaxEntries}

MapShapes == [fam : {"map"}, style : {"block", "flow"}, entries : MapEntryLists,
              final : BOOLEAN]

MapEntryText(e) == e.key \o <<":", " ">> \o MapValueText(e.kind)

RECURSIVE JoinEntries(_, _)
\* the entries with sep between two of them
JoinEntries(es, sep) ==
    IF Len(es) = 1 THEN MapEntryText(es[1])
    ELSE MapEntryText(es[1]) \o sep \o JoinEntries(Tail(es), sep)

\* the document of a shape; final says whether a line feed ends it
MapDoc(sh) ==
    (IF sh.style = "block" THEN JoinEntries(sh.entries, <<LF>>)
     ELSE <<"{">> \o JoinEntries(sh.entries, <<",", " ">>) \o <<"}">>)
    \o (IF sh.final THEN <<LF>> ELSE <<>>)

\* the entries in source order, one per entry written
MapTree(es) ==
    MappingV(Flatten([i \in 1..Len(es) |-> <<Scalar(es[i].key), MapValueTree(es[i].kind)>>]))

InitMap == \E sh \in MapShapes : Start(sh, MapDoc(sh))

SpecMap == InitMap /\ [][Next]_vars

\* C1: every Mapping parse returns holds one entry per entry written, in the
\* order of the source, and an entry whose key repeats an earlier key is kept
\* as an entry of its own (here also for the mapping nested as a value).
C1_EntriesInSourceOrder ==
    pc # "ready" => (IsOk(outcome) /\ outcome.v = MapTree(shape.entries))

\* a block mapping whose third entry repeats the key of the first was parsed
C1_Witness ==
    /\ pc = "parsed"
    /\ shape.style = "block"
    /\ Len(shape.entries) = 3
    /\ shape.entries[1].key = shape.entries[3].key
    /\ shape.entries[2].key # shape.entries[1].key
    /\ shape.entries[3].kind = "nested"
    /\ NumEntries(outcome.v) = 3
    /\ EntryKey(outcome.v, 3) = EntryKey(outcome.v, 1)

(***************************************************************************)
(* Documents with one quoted scalar                                        *)
(***************************************************************************)
\* the most bytes between the quotes
MaxQuotedLen == 2

QuotedAlphabet == {"o", "n", "1", ".", "e", "#", ":", " ", SQ, DQ}

\* every text between the quotes that does not hold the quote itself
QuotedContents(quote) ==
    UNION {[1..n -> QuotedAlphabet \ {quote}] : n \in 0..MaxQuotedLen}

QuotedPlaces == {"top", "item", "value", "flowitem", "flowvalue"}

QuotedShapes ==
    UNION {[fam : {"quoted"}, quote : {q}, content : QuotedContents(q), place : QuotedPlaces]
           : q \in {SQ, DQ}}

QuotedText(sh) == <<sh.quote>> \o sh.content \o <<sh.quote>>

QuotedDoc(sh) ==
    CASE sh.place = "top" -> QuotedText(sh)
      [] sh.place = "item" -> <<"-", " ">> \o QuotedText(sh) \o <<LF>>
      [] sh.place = "value" -> <<"k", ":", " ">> \o QuotedText(sh) \o <<LF>>
      [] sh.place = "flowitem" -> <<"[">> \o QuotedText(sh) \o <<"]">>
      [] sh.place = "flowvalue" -> <<"{", "k", ":", " ">> \o QuotedText(sh) \o <<"}">>

\* the tree of the document when the quoted scalar stands for the leaf
QuotedTree(place, leaf) ==
    CASE place = "top" -> leaf
      [] place \in {"item", "flowitem"} -> SequenceV(<<leaf>>)
      [] place \in {"value", "flowvalue"} -> MappingV(<<Scalar(<<"k">>), leaf>>)

InitQuoted == \E sh \in QuotedShapes : Start(sh, QuotedDoc(sh))

SpecQuoted == InitQuoted /\ [][Next]_vars

\* C2: a scalar between single or double quotes is returned as a Scalar whose
\* text is exactly the bytes between the quotes; it never becomes a Bool, an
\* Int or a Float, whatever it spells.
C2_QuotedStaysScalar ==
    pc # "ready" =>
        (IsOk(outcome) /\ outcome.v = QuotedTree(shape.place, Scalar(shape.content)))

\* a quoted boolean spelling was parsed as the value of a block mapping entry
C2_Witness ==
    /\ pc = "parsed"
    /\ shape.place = "value"
    /\ shape.quote = DQ
    /\ shape.content = <<"o", "n">>
    /\ InferScalarType(shape.content).t = "Bool"
    /\ EntryValue(outcome.v, 1) = Scalar(<<"o", "n">>)

(***************************************************************************)
(* Documents with one plain scalar                                         *)
(***************************************************************************)
\* the most parts a generated plain scalar is put together from
MaxParts == 2

PlainParts == {<<"t", "r", "u", "e">>, <<"Y", "e", "s">>, <<"o", "N">>,
               <<"O", "F", "F">>, <<"n", "o">>, <<"F", "A", "L", "S", "E">>,
               <<"1">>, <<"0">>, <<"-">>, <<"+">>, <<".">>, <<"e">>, <<"E">>,
               <<"e", "5">>, <<"x">>, <<"i", "n", "f">>, <<"n", "a", "n">>}

\* the numbers at the two ends of the 64-bit range and one beyond each
RangeTexts == {I64MaxDigits, I64MinDigits, <<"-">> \o I64MinDigits,
               <<"-">> \o SubSeq(I64MinDigits, 1, 18) \o <<"9">>}

PlainTexts ==
    {Flatten(ps) : ps \in UNION {[1..n -> PlainParts] : n \in 1..MaxParts}} \cup RangeTexts

PlainShapes == [fam : {"plain"}, s : PlainTexts, place : {"top", "value"}]

PlainDoc(sh) ==
    IF sh.place = "top" THEN sh.s ELSE <<"k", ":", " ">> \o sh.s \o <<LF>>

\* s is read as one plain scalar: it is not a lone dash and does not start
\* with the document marker
IsPlainText(s) == s # <<"-">> /\ (Len(s) < 3 \/ SubSeq(s, 1, 3) # <<"-", "-", "-">>)

IsBoolSpelling(s, words) == \E w \in words : ToLowercase(s) = w

\* the decision list of the claim
InferenceOf(s) ==
    CASE IsBoolSpelling(s, TrueWords) -> BoolV(TRUE)
      [] IsBoolSpelling(s, FalseWords) -> BoolV(FALSE)
      [] ParseBool(s) = "none" /\ ParseI64(s).ok -> IntV(ParseI64(s).v)
      [] ParseBool(s) = "none" /\ ~ParseI64(s).ok
         /\ (\E i \in 1..Len(s) : s[i] \in {".", "e", "E"}) /\ ParseF64(s).ok
           -> FloatV(ParseF64(s).v)
      [] OTHER -> Scalar(s)

InitPlain == \E sh \in PlainShapes : Start(sh, PlainDoc(sh))

SpecPlain == InitPlain /\ [][Next]_vars

\* C3: a plain scalar is a Bool when it spells true/yes/on or false/no/off
\* in any letter case; otherwise an Int when it parses as a 64-bit signed
\* integer; otherwise a Float only when it contains one of . e E and
\* parses as a float; otherwise a Scalar with its text unchanged.
C3_InferenceOrder ==
    (pc # "ready" /\ IsPlainText(shape.s)) =>
        /\ IsOk(outcome)
        /\ outcome.v = (IF shape.place = "top" THEN InferenceOf(shape.s)
                        ELSE MappingV(<<Scalar(<<"k">>), InferenceOf(shape.s)>>))

\* a text that parses as a float but holds none of . e E was parsed and
\* stayed a Scalar, and so did the integer one past the 64-bit range
C3_Witness ==
    /\ pc = "parsed"
    /\ shape.place = "top"
    /\ shape.s \in {<<"i", "n", "f">>, I64MinDigits}
    /\ ParseF64(shape.s).ok
    /\ outcome.v = Scalar(shape.s)

(***************************************************************************)
(* Documents with a tagged value                                           *)
(***************************************************************************)
\* the most characters of a generated tag name
MaxTagLen == 2

TagNames == UNION {[1..n -> {"t", "a"}] : n \in 1..MaxTagLen}

\* the texts a tag is put in front of
TaggedValueTexts ==
    {<<"4", "2">>,
     <<"x", " ", "y">>,
     <<DQ, "h", "i", DQ>>,
     <<"[", "a", ",", " ", "b", "]">>,
     <<"[", "]">>,
     <<"{", "b", ":", " ", "1", ",", " ", "a", ":", " ", "2", "}">>,
     <<"{", "}">>,
     <<"b", ":", " ", "1", LF, "a", ":", " ", "2", LF>>,
     <<"-", " ", "a", LF, "-", " ", "b", LF>>,
     <<"|", LF, " ", "x", LF>>,
     <<"!", "u", " ", "5">>,
     <<"!", "u", " ", "{", "a", ":", " ", "1", "}">>}

TaggedShapes == [fam : {"tagged"}, tag : TagNames, gap : {<<" ">>, <<" ", " ">>},
                 value : TaggedValueTexts]

TaggedDoc(sh) == <<"!">> \o sh.tag \o sh.gap \o sh.value

\* the Mapping the claim describes for tag name tag and parsed value pv
TaggedTree(tag, pv) ==
    IF pv.t = "Mapping"
    THEN MappingV(<<TypeKey, Scalar(tag)>> \o pv.kids)
    ELSE MappingV(<<TypeKey, Scalar(tag), ValueKey, pv>>)

InitTagged == \E sh \in TaggedShapes : Start(sh, TaggedDoc(sh))

SpecTagged == InitTagged /\ [][Next]_vars

MaxLines == 3

\* a content line, a deeper content line, an empty line, a line of one blank
LineKinds == {"text", "deep", "blank", "ws"}

LineText(kind) ==
    CASE kind = "text" -> <<" ", "a">>
      [] kind = "deep" -> <<" ", " ", "b">>
      [] kind = "blank" -> <<>>
      [] kind = "ws" -> <<" ">>
      [] kind = "key" -> <<"j", ":", " ", "1">>

LineIndent(kind) ==
    CASE kind = "text" -> 1
      [] kind = "deep" -> 2
      [] kind = "blank" -> 0
      [] kind = "ws" -> 1
      [] kind = "key" -> 0

BodyLists == UNION {[1..n -> LineKinds] : n \in 0..MaxLines}

\* final: a line feed ends the last line.  A document never ends in an
\* empty line without its line feed, and the indicator line always has one.
BlockShapes ==
    {sh \in [fam : {"block"}, ind : {"|", ">"}, chomp : {"", "-", "+"},
             lines : BodyLists, final : BOOLEAN, place : {"top", "value"}] :
        sh.final \/ (sh.lines # <<>> /\ sh.lines[Len(sh.lines)] # "blank")}

\* as the value of a mapping entry the block scalar is followed by the line
\* of the next key
LinesOf(sh) == IF sh.place = "value" THEN Append(sh.lines, "key") ELSE sh.lines

RECURSIVE JoinLines(_)
JoinLines(kinds) ==
    IF kinds = <<>> THEN <<>>
    ELSE IF Len(kinds) = 1 THEN LineText(kinds[1])
    ELSE LineText(kinds[1]) \o <<LF>> \o JoinLines(Tail(kinds))

BlockDoc(sh) ==
    (IF sh.place = "value" THEN <<"k", ":", " ">> ELSE <<>>)
    \o <<sh.ind>> \o (IF sh.chomp = "" THEN <<>> ELSE <<sh.chomp>>) \o <<LF>>
    \o JoinLines(LinesOf(sh))
    \o (IF sh.final /\ LinesOf(sh) # <<>> THEN <<LF>> ELSE <<>>)

\* a line is blank when it is empty or holds only blanks and a line feed
\* ends it
IsBlankLine(sh, i) ==
    \/ LinesOf(sh)[i] = "blank"
    \/ LinesOf(sh)[i] = "ws" /\ (i < Len(LinesOf(sh)) \/ sh.final)

NonBlankLines(sh) == {i \in 1..Len(LinesOf(sh)) : ~IsBlankLine(sh, i)}

FirstOf(set) == CHOOSE i \in set : \A j \in set : i <= j

LastOf(set) == CHOOSE i \in set : \A j \in set : j <= i

\* the lines of the block scalar: all lines before the first line indented
\* less than the first line that is not blank
DedentLines(sh) ==
    {i \in NonBlankLines(sh) :
        LineIndent(LinesOf(sh)[i]) < LineIndent(LinesOf(sh)[FirstOf(NonBlankLines(sh))])}

BodyEnd(sh) ==
    IF NonBlankLines(sh) = {} \/ DedentLines(sh) = {} THEN Len(LinesOf(sh))
    ELSE FirstOf(DedentLines(sh)) - 1

ContentLines(sh) == {i \in NonBlankLines(sh) : i <= BodyEnd(sh)}

HasContent(sh) == ContentLines(sh) # {}

\* the blank lines that follow the last content line of the block scalar
TrailingBlankLines(sh) ==
    IF HasContent(sh) THEN BodyEnd(sh) - LastOf(ContentLines(sh)) ELSE BodyEnd(sh)

RECURSIVE TrailingNewlines(_)
\* the number of line feeds a text ends with
TrailingNewlines(s) ==
    IF s # <<>> /\ s[Len(s)] = LF THEN 1 + TrailingNewlines(SubSeq(s, 1, Len(s) - 1))
    ELSE 0

\* the input ends with the line break of the indicator line
EndsAfterIndicator(sh) == LinesOf(sh) = <<>>

\* the text of the block scalar in the tree parse returned
BlockResult(sh, r) == IF sh.place = "top" THEN r.v.s ELSE EntryValue(r.v, 1).s

BlockParsed(sh, r) ==
    /\ IsOk(r)
    /\ IF sh.place = "top" THEN r.v.t = "String"
       ELSE r.v.t = "Mapping" /\ NumEntries(r.v) >= 1 /\ EntryValue(r.v, 1).t = "String"

StripHolds(sh, s) == sh.chomp = "-" => TrailingNewlines(s) = 0

ClipHolds(sh, s) ==
    sh.chomp = "" => IF HasContent(sh) THEN TrailingNewlines(s) = 1 ELSE s = <<>>

KeepHolds(sh, s) == sh.chomp = "+" => TrailingNewlines(s) = 1 + TrailingBlankLines(sh)

InitBlock == \E sh \in BlockShapes : Start(sh, BlockDoc(sh))

SpecBlock == InitBlock /\ [][Next]_vars

MaxItems == 3

\* texts that are one plain scalar inside a flow collection and after a dash
PlainItems == {<<"a">>, <<"1">>, <<"b", " ", "c">>, <<"y", "e", "s">>,
               <<"x", ":", "y">>, <<"-", "1">>, <<"1", ".", "5">>}

ItemLists == UNION {[1..n -> PlainItems] : n \in 1..MaxItems}

SeqShapes == [fam : {"seq"}, style : {"flow", "block"}, items : ItemLists]

RECURSIVE JoinItems(_)
JoinItems(items) ==
    IF Len(items) = 1 THEN items[1]
    ELSE items[1] \o <<",", " ">> \o JoinItems(Tail(items))

\* [x1, ..., xn]
FlowSeqText(items) == <<"[">> \o JoinItems(items) \o <<"]">>

\* - x1\n ... - xn\n
BlockSeqText(items) == Flatten([i \in 1..Len(items) |-> <<"-", " ">> \o items[i] \o <<LF>>])

SeqDoc(sh) == IF sh.style = "flow" THEN FlowSeqText(sh.items) ELSE BlockSeqText(sh.items)

\* the text of the same items in the other style
OtherSeqDoc(sh) == IF sh.style = "flow" THEN BlockSeqText(sh.items) ELSE FlowSeqText(sh.items)

InitSeq == \E sh \in SeqShapes : Start(sh, SeqDoc(sh))

SpecSeq == InitSeq /\ [][Next]_vars

\* C6: for a list of plain scalar items the flow text [x1, ..., xn] and the
\* block text - x1\n ... - xn\n parse to the same Sequence value, one
\* element per item.
C6_FlowBlockEquivalence ==
    pc # "ready" =>
        /\ IsOk(outcome)
        /\ outcome.v.t = "Sequence"
        /\ Len(outcome.v.kids) = Len(shape.items)
        /\ outcome = Ok(ParseInput(OtherSeqDoc(shape)).v, outcome.st)

\* a block sequence of three different items was parsed and its flow text
\* gives the same three elements
C6_Witness ==
    /\ pc = "parsed"
    /\ shape.style = "block"
    /\ shape.items = << <<"b", " ", "c">>, <<"y", "e", "s">>, <<"-", "1">> >>
    /\ outcome.v = SequenceV(<<Scalar(<<"b", " ", "c">>), BoolV(TRUE), IntV(<<"-", "1">>)>>)
    /\ ParseInput(FlowSeqText(shape.items)).v = outcome.v

(***************************************************************************)
(* Every short document                                                    *)
(***************************************************************************)
\* the most bytes of a generated document
MaxLen == 3

Alphabet == {"a", "1", ".", ":", " ", LF, "-", "[", "]", "#", DQ, ","}

Texts == UNION {[1..n -> Alphabet] : n \in 0..MaxLen}

Init == \E doc \in Texts : Start([fam |-> "text"], doc)

Spec == Init /\ [][Next]_vars

\* C7: for every tree parse returns, parsing the Display rendering of the
\* tree succeeds and gives a tree equal to it.
C7_RoundTrip ==
    pc = "reparsed" => (IsOk(again) /\ again.v = outcome.v)

\* C9: parse terminates on every finite input: no call of the dispatcher and
\* no iteration of a loop goes on with the cursor where it was.
C9_Terminates ==
    pc # "ready" => outcome.k # "hang"

(***************************************************************************)
(* Documents with one structural defect                                    *)
(***************************************************************************)
\* the most characters of the key that lacks its colon
MaxKeyLen == 2

BareKeys == UNION {[1..n -> {"b"}] : n \in 1..MaxKeyLen}

Closers == {"]", "}"}

\* a closer with no opener: alone, after a finished collection, as a value,
\* as an item
CloserPlaces == {"alone", "aftermap", "afterseq", "afterflow", "value", "item"}

CloserText(place, c) ==
    CASE place = "alone" -> <<c>>
      [] place = "aftermap" -> <<"a", ":", " ", "1", LF, c>>
      [] place = "afterseq" -> <<"-", " ", "a", LF, c>>
      [] place = "afterflow" -> <<"[", "a", "]", c>>
      [] place = "value" -> <<"a", ":", " ", c>>
      [] place = "item" -> <<"-", " ", c>>

\* a key that no colon follows: the last line of a block mapping, the only
\* or the last entry of a flow mapping
NoColonPlaces == {"block", "flow", "flowlast"}

NoColonText(place, key) ==
    CASE place = "block" -> <<"a", ":", " ", "1", LF>> \o key
      [] place = "flow" -> <<"{">> \o key \o <<"}">>
      [] place = "flowlast" -> <<"{", "a", ":", " ", "1", ",", " ">> \o key \o <<"}">>

\* input that ends inside a construct
UnfinishedTexts ==
    {<<"[">>, <<"[", "a">>, <<"[", "a", ",">>, <<"{">>, <<"{", "a">>,
     <<"{", "a", ":">>, <<"{", "a", ":", " ", "1">>, <<"{", "a", ":", " ", "1", ",">>,
     <<DQ, "a">>, <<SQ, "a">>, <<"a", ":">>, <<"-", " ">>, <<"[", "[", "a", "]">>,
     <<"a", ":", " ", "[", "b">>, <<"-", " ", "{", "a", ":", " ", "1">>}

\* a block sequence or a block mapping inside a flow collection
BlockInFlowTexts ==
    {<<"[", "-", " ", "a", "]">>, <<"[", "a", ",", " ", "-", " ", "b", "]">>,
     <<"{", "k", ":", " ", "-", " ", "a", "}">>, <<"[", "[", "-", " ", "a", "]", "]">>,
     <<"[", "[", "a", "]", ":", " ", "b", "]">>, <<"{", "k", ":", " ", "[", "a", "]", ":", " ", "b", "}">>}

\* documents without a defect
SoundTexts ==
    {<<"a", ":", " ", "1">>, <<"-", " ", "a">>, <<"[", "a", "]">>, <<"{", "a", ":", " ", "1", "}">>,
     <<"a", ":", " ", "1", LF, "b", ":", " ", "2">>, <<"[", "a", ",", " ", "[", "b", "]", "]">>}

DefectShapes ==
    [fam : {"defect"}, defect : {"closer"}, place : CloserPlaces, c : Closers, final : BOOLEAN]
    \cup [fam : {"defect"}, defect : {"nocolon"}, place : NoColonPlaces, key : BareKeys,
          final : BOOLEAN]
    \cup [fam : {"defect"}, defect : {"unfinished"}, body : UnfinishedTexts, final : BOOLEAN]
    \cup [fam : {"defect"}, defect : {"blockinflow"}, body : BlockInFlowTexts, final : BOOLEAN]
    \cup [fam : {"defect"}, defect : {"none"}, body : SoundTexts, final : BOOLEAN]

\* final: a line feed ends the document
DefectDoc(sh) ==
    (CASE sh.defect = "closer" -> CloserText(sh.place, sh.c)
       [] sh.defect = "nocolon" -> NoColonText(sh.place, sh.key)
       [] OTHER -> sh.body)
    \o (IF sh.final THEN <<LF>> ELSE <<>>)

InitDefect == \E sh \in DefectShapes : Start(sh, DefectDoc(sh))

SpecDefect == InitDefect /\ [][Next]_vars

\* C8: when the input has a structural defect (a closer with no opener, a
\* mapping key with no colon after it, an end of input inside an unfinished
\* construct, a block collection inside a flow collection) parse returns a
\* ParseError; it never returns Ok with a tree that leaves the defect out.
C8_DefectsAreErrors ==
    (pc # "ready" /\ shape.defect # "none") => outcome.k = "err"

(***************************************************************************)
(* Flow mappings whose last entry has no value                             *)
(***************************************************************************)
\* the most complete entries before the last one
MaxPre == 2

PreEntries == {<<"k", "e", "y", ":", " ", "v", "a", "l", "u", "e">>, <<"a", ":", " ", "1">>}

PreLists == UNION {[1..n -> PreEntries] : n \in 0..MaxPre}

LastKeys == {<<"k">>, <<"m", "i", "s", "s", "i", "n", "g">>}

\* lead: a line feed before the mapping; gap1, gap2: the blanks before and
\* after the colon; value: the text of the last value, empty when it is
\* missing; final: a line feed after the mapping
MissingShapes ==
    [fam : {"missing"}, lead : BOOLEAN, pre : PreLists, key : LastKeys,
     gap1 : {<<>>, <<" ">>}, gap2 : {<<>>, <<" ">>, <<" ", " ">>},
     value : {<<>>, <<"v">>}, final : BOOLEAN]

\* the document up to the closing brace
BeforeBrace(sh) ==
    (IF sh.lead THEN <<LF>> ELSE <<>>) \o <<"{">>
    \o Flatten([i \in 1..Len(sh.pre) |-> sh.pre[i] \o <<",", " ">>])
    \o sh.key \o sh.gap1 \o <<":">> \o sh.gap2 \o sh.value

MissingDoc(sh) == BeforeBrace(sh) \o <<"}">> \o (IF sh.final THEN <<LF>> ELSE <<>>)

\* the byte offset of the closing brace
BraceOffset(sh) == Len(BeforeBrace(sh))

\* the input of the test: "\n{key: value, missing : }\n"
TestShape ==
    [fam |-> "missing", lead |-> TRUE,
     pre |-> << <<"k", "e", "y", ":", " ", "v", "a", "l", "u", "e">> >>,
     key |-> <<"m", "i", "s", "s", "i", "n", "g">>, gap1 |-> <<" ">>, gap2 |-> <<" ">>,
     value |-> <<>>, final |-> TRUE]

\* the line and column the ParseError of an outcome carries;
\* Parser::new fails on the empty input with line 0, column 0
ErrorPosition(src, r) ==
    IF src = <<>> THEN <<0, 0>> ELSE LookupLineCol(src, r.st.idx)

InitMissing == \E sh \in MissingShapes : Start(sh, MissingDoc(sh))

SpecMissing == InitMissing /\ [][Next]_vars

\* C10: a flow-mapping entry with a key and a colon but no value before the
\* closing brace makes parse fail with the message unexpected symbol "}",
\* raised with the cursor on that brace; for the input of the test the error
\* carries line 2, column 25.
C10_MissingValueError ==
    (pc # "ready" /\ shape.value = <<>>) =>
        /\ outcome.k = "err"
        /\ outcome.msg = "unexpected symbol '}'"
        /\ outcome.st.idx = BraceOffset(shape)
        /\ outcome.st.cur = "}"
        /\ shape = TestShape => ErrorPosition(input, outcome) = <<2, 25>>

\* the input of the test was parsed
C10_Witness ==
    /\ pc = "parsed"
    /\ shape = TestShape
    /\ Len(input) = 26
    /\ outcome.k = "err"
    /\ outcome.st.idx = 24


(***************************************************************************)
(* C11: the position a ParseError carries                                  *)
(***************************************************************************)
\* the 1-based positions of the line feeds before the byte at offset idx
FeedsBefore(src, idx) == {i \in 1..idx : src[i] = LF}

LastFeedBefore(src, idx) ==
    IF FeedsBefore(src, idx) = {} THEN 0
    ELSE CHOOSE i \in FeedsBefore(src, idx) : \A j \in FeedsBefore(src, idx) : j <= i

\* the 1-based line and the 1-based byte column of the byte at offset idx
BytePosition(src, idx) ==
    <<Cardinality(FeedsBefore(src, idx)) + 1, idx - LastFeedBefore(src, idx) + 1>>

\* C11: every ParseError of parse carries line >= 1 and column >= 1, and the
\* pair is the 1-based line and byte column of the byte the cursor was on
\* when the error was raised.
C11_PositionOfCursorByte ==
    (pc # "ready" /\ outcome.k = "err") =>
        /\ ErrorPosition(input, outcome)[1] >= 1
        /\ ErrorPosition(input, outcome)[2] >= 1
        /\ ErrorPosition(input, outcome) = BytePosition(input, outcome.st.idx)


(***************************************************************************)
(* C12: block sequences with a dash that no separator follows              *)
(***************************************************************************)
\* the most well-formed items before the malformed one
MaxGoodItems == 2

GoodItems == {<<"a">>, <<"1">>, <<"b", " ", "c">>}

GoodItemLists == UNION {[1..n -> GoodItems] : n \in 1..MaxGoodItems}

\* what follows the dash at item position: nothing (the dash is the last
\* byte of the input) or a byte that is not a space, a tab or a line break
AfterDash == {<<>>, <<"b">>, <<"b", LF>>, <<"1", LF>>, <<"-", LF>>,
              <<"[", "a", "]", LF>>, <<"#", LF>>}

\* nest: the sequence is the document, or the value of a block mapping key
\* with its items indented by two
DashShapes ==
    [fam : {"dash"}, lead : {<<>>, <<LF>>}, nest : BOOLEAN,
     items : GoodItemLists, after : AfterDash]

DashPrefix(sh) == IF sh.nest THEN <<" ", " ">> ELSE <<>>

DashDoc(sh) ==
    sh.lead \o (IF sh.nest THEN <<"k", ":", LF>> ELSE <<>>)
    \o Flatten([i \in 1..Len(sh.items) |->
                  DashPrefix(sh) \o <<"-", " ">> \o sh.items[i] \o <<LF>>])
    \o DashPrefix(sh) \o <<"-">> \o sh.after

InitDash == \E sh \in DashShapes : Start(sh, DashDoc(sh))

SpecDash == InitDash /\ [][Next]_vars

\* C12: a dash at item position of a block sequence that is followed by
\* anything but a space, a tab or a line break, or that is the last byte of
\* the input, makes parse fail with a ParseError.
C12_DashNeedsSeparator ==
    pc # "ready" => outcome.k = "err"


(***************************************************************************)
(* C13: block keys with colons inside brackets and parentheses             *)
(***************************************************************************)
\* the most nested brackets of a generated label
MaxNest == 2

KeyNames == {<<"k">>, <<"+", "k", ".", "b">>}

\* what stands between the brackets of a key
LabelTexts == {<<>>, <<"a">>, <<"a", ":", " ", "b">>, <<"a", ":">>,
               <<"a", ":", " ", "b", ":", " ", "c">>, <<":", " ", "a">>}

\* what stands between the parentheses of a key; absent: no parentheses
ParamTexts == {<<"absent">>, <<>>, <<"h", ":", "/", "/", "x">>, <<"x", ":", " ", "y">>,
               <<"[", "x", ":", " ", "y", "]">>}

\* the text after the colon of the key and the tree it parses to
KeyValueKinds == {"plain", "int", "nested"}

KeyValueText(kind) ==
    CASE kind = "plain" -> <<" ", "v">>
      [] kind = "int" -> <<" ", "1", "0", "0", LF>>
      [] kind = "nested" -> <<LF, " ", " ", "o", ":", " ", "1", LF>>

KeyValueTree(kind) ==
    CASE kind = "plain" -> Scalar(<<"v">>)
      [] kind = "int" -> IntV(<<"1", "0", "0">>)
      [] kind = "nested" -> MappingV(<<Scalar(<<"o">>), IntV(<<"1">>)>>)

BracketKeyShapes ==
    [fam : {"bracketkey"}, lead : {<<>>, <<LF>>}, name : KeyNames,
     nest : 1..MaxNest, label : LabelTexts, param : ParamTexts,
     value : KeyValueKinds]

\* [label] nested n deep: [[label]]
RECURSIVE Bracketed(_, _)
Bracketed(label, n) ==
    IF n = 0 THEN label ELSE <<"[">> \o Bracketed(label, n - 1) \o <<"]">>

BracketKeyText(sh) ==
    sh.name \o Bracketed(sh.label, sh.nest)
    \o (IF sh.param = <<"absent">> THEN <<>> ELSE <<"(">> \o sh.param \o <<")">>)

BracketKeyDoc(sh) == sh.lead \o BracketKeyText(sh) \o <<":">> \o KeyValueText(sh.value)

\* the key has a colon followed by a blank, or by the closing bracket, inside
\* its brackets or parentheses
HasInnerColon(sh) == Contains(sh.label, ":") \/ Contains(sh.param, ":")

InitBracketKey == \E sh \in BracketKeyShapes : Start(sh, BracketKeyDoc(sh))

SpecBracketKey == InitBracketKey /\ [][Next]_vars

\* C13: a colon inside an open [ ... ] or ( ... ) does not end a plain
\* scalar: a block key name[label](param) with colons in the label and the
\* parameter is parsed as one key whose text is the whole key, and the
\* separator is the colon after the last closing bracket or parenthesis.
C13_ColonInsideBrackets ==
    pc # "ready" =>
        /\ IsOk(outcome)
        /\ outcome.v = MappingV(<<Scalar(BracketKeyText(shape)), KeyValueTree(shape.value)>>)

\* the key +k.b[a: b: c](x: y) with a nested mapping as its value was parsed
C13_Witness ==
    /\ pc = "parsed"
    /\ shape.label = <<"a", ":", " ", "b", ":", " ", "c">>
    /\ shape.param = <<"x", ":", " ", "y">>
    /\ shape.nest = 1
    /\ shape.value = "nested"
    /\ HasInnerColon(shape)
    /\ IsOk(outcome)
    /\ outcome.v.kids[1] = Scalar(<<"+", "k", ".", "b", "[", "a", ":", " ", "b", ":", " ", "c", "]",
                                    "(", "x", ":", " ", "y", ")">>)


(***************************************************************************)
(* C14: comments after plain and quoted scalars                            *)
(***************************************************************************)
\* the most lines of a generated document with comments
MaxCommentLines == 2

\* one line: a plain or a double-quoted value, and the comment after it
\* (none, right after the value, or after a blank)
CommentKinds == {"none", "tight", "spaced"}

CommentLineSpecs ==
    [val : {<<"a">>, <<"b", " ", "c">>}, quoted : BOOLEAN, comment : CommentKinds]

CommentLineLists == UNION {[1..n -> CommentLineSpecs] : n \in 1..MaxCommentLines}

\* final: the last line ends with a line feed
CommentShapes ==
    [fam : {"comment"}, style : {"map", "seq"}, lines : CommentLineLists,
     final : BOOLEAN]

\* the content of the value of a line: a quoted value holds a '#'
CommentValueContent(ln) == IF ln.quoted THEN ln.val \o <<"#", "z">> ELSE ln.val

CommentValueText(ln) ==
    IF ln.quoted THEN <<DQ>> \o CommentValueContent(ln) \o <<DQ>> ELSE ln.val

CommentText(kind) ==
    CASE kind = "none" -> <<>>
      [] kind = "tight" -> <<"#", "x">>
      [] kind = "spaced" -> <<" ", "#", " ", "x", " ", "y">>

CommentKey(i) == <<"k", DigitSeq[i + 1]>>

CommentLineText(sh, i) ==
    (IF sh.style = "map" THEN CommentKey(i) \o <<":", " ">> ELSE <<"-", " ">>)
    \o CommentValueText(sh.lines[i]) \o CommentText(sh.lines[i].comment)
    \o (IF i < Len(sh.lines) \/ sh.final THEN <<LF>> ELSE <<>>)

CommentDoc(sh) == Flatten([i \in 1..Len(sh.lines) |-> CommentLineText(sh, i)])

\* the tree of the document with every comment taken out
CommentTree(sh) ==
    IF sh.style = "map"
    THEN MappingV(Flatten([i \in 1..Len(sh.lines) |->
                    <<Scalar(CommentKey(i)), Scalar(CommentValueContent(sh.lines[i]))>>]))
    ELSE SequenceV([i \in 1..Len(sh.lines) |-> Scalar(CommentValueContent(sh.lines[i]))])

InitComment == \E sh \in CommentShapes : Start(sh, CommentDoc(sh))

SpecComment == InitComment /\ [][Next]_vars

\* C14: a '#' ends a plain scalar and the text from it to the end of the
\* line never becomes part of a value, on every line including the last
\* one; a '#' inside a quoted scalar is content.
C14_CommentsDiscarded ==
    pc # "ready" => (IsOk(outcome) /\ outcome.v = CommentTree(shape))


(***************************************************************************)
(* C15, C16: tags with a generic-parameter suffix                          *)
(***************************************************************************)
GenericNames == {<<"s", "e", "q">>, <<"o">>}

\* well-formed suffixes: <s>, <o<s>>, <s,i>, <s|i>
SoundSuffixes == {<<"<", "s", ">">>,
                  <<"<", "o", "<", "s", ">", ">">>,
                  <<"<", "s", ",", "i", ">">>,
                  <<"<", "s", "|", "i", ">">>}

\* a '<' that is never closed, also when a blank ends the tag name early
UnclosedSuffixes == {<<"<", "s">>,
                     <<"<", "o", "<", "s", ">">>,
                     <<"<", "s", " ", "|", " ", "i", ">">>}

\* a '>' that no '<' matches
UnmatchedSuffixes == {<<">">>, <<"<", "s", ">", ">">>}

GenericValueKinds == {"int", "seq", "quoted", "block"}

\* place: the tagged value is the document, or the value of the key v
GenericShapes ==
    [fam : {"generic"}, name : GenericNames,
     suffix : SoundSuffixes \cup UnclosedSuffixes \cup UnmatchedSuffixes,
     place : {"top", "value"}, value : GenericValueKinds]

GenericValueText(sh) ==
    CASE sh.value = "int" -> <<" ", "4", "2">>
      [] sh.value = "seq" -> <<" ", "[", "a", ",", " ", "b", "]">>
      [] sh.value = "quoted" -> <<" ", DQ, "x", DQ>>
      [] sh.value = "block" ->
           <<LF>> \o (IF sh.place = "value" THEN <<" ", " ">> ELSE <<>>)
           \o <<"t", ":", " ", "3", LF>>

GenericValueTree(sh) ==
    CASE sh.value = "int" -> IntV(<<"4", "2">>)
      [] sh.value = "seq" -> SequenceV(<<Scalar(<<"a">>), Scalar(<<"b">>)>>)
      [] sh.value = "quoted" -> Scalar(<<"x">>)
      [] sh.value = "block" -> MappingV(<<Scalar(<<"t">>), IntV(<<"3">>)>>)

GenericDoc(sh) ==
    (IF sh.place = "value" THEN <<"v", ":", " ">> ELSE <<>>)
    \o <<"!">> \o sh.name \o sh.suffix \o GenericValueText(sh)

\* the tree with the name and the whole suffix as the tag
GenericTree(sh) ==
    IF sh.place = "value"
    THEN MappingV(<<Scalar(<<"v">>), TaggedTree(sh.name \o sh.suffix, GenericValueTree(sh))>>)
    ELSE TaggedTree(sh.name \o sh.suffix, GenericValueTree(sh))

InitGeneric == \E sh \in GenericShapes : Start(sh, GenericDoc(sh))

SpecGeneric == InitGeneric /\ [][Next]_vars

\* C15: a tag name directly followed by a well-formed suffix in angle
\* brackets gives a __type whose text is the name with the whole suffix, and
\* the value after the tag is parsed as it is without the tag.
C15_GenericSuffixVerbatim ==
    (pc # "ready" /\ shape.suffix \in SoundSuffixes) =>
        (IsOk(outcome) /\ outcome.v = GenericTree(shape))

\* the messages the claim names; every message of the parser is a literal
\* of parse.rs, so a message has the words only when it is the literal
UnclosedMessage == "unclosed '<'"

UnmatchedMessage == "unmatched '>'"

\* C16: a tag whose '<' is never closed makes parse fail with a message
\* that has the words unclosed '<', and a tag with a '>' that no '<'
\* matches makes parse fail with a message that has the words unmatched '>'.
C16_BadSuffixIsError ==
    pc # "ready" =>
        /\ shape.suffix \in UnclosedSuffixes =>
             (outcome.k = "err" /\ outcome.msg = UnclosedMessage)
        /\ shape.suffix \in UnmatchedSuffixes =>
             (outcome.k = "err" /\ outcome.msg = UnmatchedMessage)


(***************************************************************************)
(* C17: block scalars with multi-byte UTF-8 characters                     *)
(***************************************************************************)
\* the most content lines of a generated block scalar
MaxUtf8Lines == 2

\* content lines as UTF-8 bytes: a, e with acute accent (C3 A9), a and the
\* CJK character U+4E16 (E4 B8 96), the yen sign (C2 A5) and 1
Utf8Lines == {<<"a">>,
              <<"xC3", "xA9">>,
              <<"a", "xE4", "xB8", "x96">>,
              <<"xC2", "xA5", "1">>}

Utf8LineLists == UNION {[1..n -> Utf8Lines] : n \in 1..MaxUtf8Lines}

Utf8Shapes ==
    [fam : {"utf8"}, fold : BOOLEAN, chomp : {"clip", "strip"},
     lines : Utf8LineLists, final : BOOLEAN]

Utf8Doc(sh) ==
    <<"k", ":", " ", (IF sh.fold THEN ">" ELSE "|")>>
    \o (IF sh.chomp = "strip" THEN <<"-">> ELSE <<>>) \o <<LF>>
    \o Flatten([i \in 1..Len(sh.lines) |->
                  <<" ", " ">> \o sh.lines[i]
                  \o (IF i < Len(sh.lines) \/ sh.final THEN <<LF>> ELSE <<>>)])

\* the source bytes of the content lines, joined as the style joins lines
RECURSIVE JoinUtf8Lines(_, _)
JoinUtf8Lines(lines, sep) ==
    IF Len(lines) = 1 THEN lines[1]
    ELSE lines[1] \o <<sep>> \o JoinUtf8Lines(Tail(lines), sep)

Utf8Content(sh) ==
    JoinUtf8Lines(sh.lines, LineSeparator(sh.fold))
    \o (IF sh.chomp = "clip" THEN <<LF>> ELSE <<>>)

HasHighByte(sh) == \E i \in 1..Len(sh.lines) : \E j \in 1..Len(sh.lines[i]) :
                       sh.lines[i][j] \in HighBytes

InitUtf8 == \E sh \in Utf8Shapes : Start(sh, Utf8Doc(sh))

SpecUtf8 == InitUtf8 /\ [][Next]_vars

\* C17: the content of a literal or folded block scalar is reproduced byte
\* for byte: the UTF-8 bytes of the resulting owned string are the source
\* bytes of the content lines.
C17_BlockScalarBytes ==
    pc # "ready" =>
        (IsOk(outcome) /\ outcome.v = MappingV(<<Scalar(<<"k">>), OwnedString(Utf8Content(shape))>>))

(***************************************************************************)
(* Documents projected to JSON: a flow mapping, a flow sequence or a block *)
(* mapping whose values are leaves of every type and nested collections    *)
(***************************************************************************)
\* the most entries or elements the top-level collection has
MaxJsonEntries == 2

JsonKeys == {"z", "a"}

JsonValueKinds == {"scalar", "int", "float", "huge", "bool", "seq", "map"}

JsonValueText(kind) ==
    CASE kind = "scalar" -> <<"a", "b">>
      [] kind = "int"    -> <<"-", "7">>
      [] kind = "float"  -> <<"2", "e", "3">>
      [] kind = "huge"   -> <<"1", "e", "9", "9", "9">>
      [] kind = "bool"   -> <<"y", "e", "s">>
      [] kind = "seq"    -> <<"[", "1", "e", "3", "0", ",", " ", "a", "b", "]">>
      [] kind = "map"    -> <<"{", "[", "k", "]", ":", " ", "1", ".", "5", ",", " ",
                              "b", ":", " ", "n", "o", "}">>
      [] kind = "string" -> <<"|", LF, " ", " ", "h", "i">>

JsonItems(style) ==
    [key : IF style = "flowseq" THEN {"z"} ELSE JsonKeys,
     kind : IF style = "blockmap" THEN JsonValueKinds \cup {"string"} ELSE JsonValueKinds]

JsonShapes ==
    UNION {[fam : {"json"}, style : {style},
            items : UNION {[1..n -> JsonItems(style)] : n \in 1..MaxJsonEntries}]
           : style \in {"flowmap", "flowseq", "blockmap"}}

JsonItemText(style, item) ==
    IF style = "flowseq" THEN JsonValueText(item.kind)
    ELSE IF style = "flowmap" THEN <<item.key, ":", " ">> \o JsonValueText(item.kind)
    ELSE <<item.key, ":", " ">> \o JsonValueText(item.kind) \o <<LF>>

RECURSIVE JoinJsonItems(_, _)
JoinJsonItems(style, items) ==
    IF items = <<>> THEN <<>>
    ELSE JsonItemText(style, Head(items))
         \o (IF style # "blockmap" /\ Len(items) > 1 THEN <<",", " ">> ELSE <<>>)
         \o JoinJsonItems(style, Tail(items))

JsonDoc(sh) ==
    IF sh.style = "flowseq" THEN <<"[">> \o JoinJsonItems(sh.style, sh.items) \o <<"]">>
    ELSE IF sh.style = "flowmap" THEN <<"{">> \o JoinJsonItems(sh.style, sh.items) \o <<"}">>
    ELSE JoinJsonItems(sh.style, sh.items)

\* two number texts denote the same number
SameNumber(a, b) ==
    /\ IsNegative(a) = IsNegative(b)
    /\ FloatDigits(a) = FloatDigits(b)
    /\ FloatDigits(a) # <<>> => FloatPoint(a) = FloatPoint(b)

\* the object keys of the entries of a Mapping, in entry order
EntryKeys(v) == [i \in 1..NumEntries(v) |-> JsonKey(EntryKey(v, i))]

\* a sequence without the repetitions of its elements
RECURSIVE Distinct(_)
Distinct(s) ==
    IF s = <<>> THEN <<>>
    ELSE IF \E i \in 1..(Len(s) - 1) : s[i] = s[Len(s)] THEN Distinct(SubSeq(s, 1, Len(s) - 1))
    ELSE Distinct(SubSeq(s, 1, Len(s) - 1)) \o <<s[Len(s)]>>

\* the value of the last entry of a Mapping with the object key
LastValueOf(v, key) ==
    EntryValue(v, CHOOSE i \in 1..NumEntries(v) :
                      /\ EntryKeys(v)[i] = key
                      /\ \A j \in (i + 1)..NumEntries(v) : EntryKeys(v)[j] # key)

\* j is the JSON value the property describes for the Yaml value v.  As
\* stated every Float has a matching number and every entry a member; exact
\* is FALSE for the reading in which a Float that is not finite becomes 0 and
\* entries of one key make one member, at the place of the first of them and
\* with the value of the last
RECURSIVE JsonMatches(_, _, _)
JsonMatches(v, j, exact) ==
    IF v.t \in {"Scalar", "String"} THEN j = JString(v.s)
    ELSE IF v.t = "Int" THEN j = JNumber(v.s)
    ELSE IF v.t = "Float"
    THEN /\ j.t = "JNumber"
         /\ IF IsFiniteText(v.s) THEN SameNumber(v.s, j.s) ELSE ~exact /\ j.s = <<"0">>
    ELSE IF v.t = "Bool" THEN j = JBool(v.s)
    ELSE IF v.t = "Sequence"
    THEN /\ j.t = "JArray"
         /\ Len(j.kids) = Len(v.kids)
         /\ \A i \in 1..Len(v.kids) : JsonMatches(v.kids[i], j.kids[i], exact)
    ELSE /\ v.t = "Mapping"
         /\ j.t = "JObject"
         /\ IF exact
            THEN /\ MemberKeys(j.kids) = EntryKeys(v)
                 /\ \A i \in 1..NumEntries(v) : JsonMatches(EntryValue(v, i), j.kids[2 * i], exact)
            ELSE /\ MemberKeys(j.kids) = Distinct(EntryKeys(v))
                 /\ \A i \in 1..Len(MemberKeys(j.kids)) :
                        JsonMatches(LastValueOf(v, MemberKeys(j.kids)[i]), j.kids[2 * i], exact)

InitJson == \E sh \in JsonShapes : Start(sh, JsonDoc(sh))

SpecJson == InitJson /\ [][Next]_vars

C18_Parses == pc # "ready" => IsOk(outcome)

TagDispTags == {<<"t">>, <<"a", "b">>}

TagDispPlaces == {"value", "nested", "top", "item"}

\* what follows the "__type" entry: nothing, a "__value" entry alone, other
\* entries, or a "__value" entry and another one
TagDispRests == {"none", "scalar", "int", "fields", "two", "valuefirst"}

TagDispShapes == [fam : {"tagdisp"}, place : TagDispPlaces, tag : TagDispTags, rest : TagDispRests]

TagDispRestText(rest) ==
    CASE rest = "none"       -> <<"{", "}">>
      [] rest = "scalar"     -> <<"a">>
      [] rest = "int"        -> <<"5">>
      [] rest = "fields"     -> <<"{", "n", ":", " ", "J", "}">>
      [] rest = "two"        -> <<"{", "n", ":", " ", "J", ",", " ", "m", ":", " ", "5", "}">>
      [] rest = "valuefirst" -> <<"{", "_", "_", "v", "a", "l", "u", "e", ":", " ", "a", ",", " ",
                                  "n", ":", " ", "J", "}">>

\* the entries after "__type", as key1, value1, ...
TagDispRestEntries(rest) ==
    CASE rest = "none"       -> <<>>
      [] rest = "scalar"     -> <<ValueKey, Scalar(<<"a">>)>>
      [] rest = "int"        -> <<ValueKey, IntV(<<"5">>)>>
      [] rest = "fields"     -> <<Scalar(<<"n">>), Scalar(<<"J">>)>>
      [] rest = "two"        -> <<Scalar(<<"n">>), Scalar(<<"J">>), Scalar(<<"m">>), IntV(<<"5">>)>>
      [] rest = "valuefirst" -> <<ValueKey, Scalar(<<"a">>), Scalar(<<"n">>), Scalar(<<"J">>)>>

\* what is written before the tag on its line
TagDispPrefix(place) ==
    CASE place = "value"  -> <<"k", ":", " ">>
      [] place = "nested" -> <<" ", " ", "k", ":", " ">>
      [] place = "top"    -> <<>>
      [] place = "item"   -> <<"-", " ">>

TagDispOuter(place) == IF place = "nested" THEN <<"o", ":", LF>> ELSE <<>>

TagDispDoc(sh) ==
    TagDispOuter(sh.place) \o TagDispPrefix(sh.place) \o <<"!">> \o sh.tag \o <<" ">>
    \o TagDispRestText(sh.rest) \o <<LF>>

TagDispTagged(sh) == MappingV(<<TypeKey, Scalar(sh.tag)>> \o TagDispRestEntries(sh.rest))

TagDispTree(sh) ==
    CASE sh.place = "value"  -> MappingV(<<Scalar(<<"k">>), TagDispTagged(sh)>>)
      [] sh.place = "nested" -> MappingV(<<Scalar(<<"o">>),
                                           MappingV(<<Scalar(<<"k">>), TagDispTagged(sh)>>)>>)
      [] sh.place = "top"    -> TagDispTagged(sh)
      [] sh.place = "item"   -> SequenceV(<<TagDispTagged(sh)>>)

\* the indent of the block of the remaining entries
TagDispBlockIndent(place) ==
    CASE place = "value"  -> 2
      [] place = "nested" -> 4
      [] place = "top"    -> 0
      [] place = "item"   -> 2

\* the remaining entries, one "key: value" line each
RECURSIVE TagDispLines(_, _)
TagDispLines(entries, indent) ==
    IF entries = <<>> THEN <<>>
    ELSE PrintIndent(indent) \o entries[1].s \o <<":", " ">> \o entries[2].s \o <<LF>>
         \o TagDispLines(RestEntries(entries), indent)

\* the text the property describes for the document
TagDispText(sh) ==
    TagDispOuter(sh.place) \o TagDispPrefix(sh.place) \o <<"!">> \o sh.tag \o
    (IF sh.rest \in {"scalar", "int"} THEN <<" ">> \o TagDispRestEntries(sh.rest)[2].s \o <<LF>>
     ELSE IF sh.rest = "none" /\ sh.place \in {"value", "nested"} THEN <<" ", "{", "}", LF>>
     ELSE <<LF>> \o TagDispLines(TagDispRestEntries(sh.rest), TagDispBlockIndent(sh.place)))

\* "__type:" is written somewhere in the text
PrintsTypeKey(s) ==
    \E i \in 1..(Len(s) - 6) : SubSeq(s, i, i + 6) = TypeKey.s \o <<":">>

InitTagDisp == \E sh \in TagDispShapes : Start(sh, TagDispDoc(sh))

SpecTagDisp == InitTagDisp /\ [][Next]_vars

\* C19: Display renders a Mapping whose first entry is ("__type",
\* Scalar(tag)) as an inline !tag and never prints "__type" as a key: with
\* exactly one more entry keyed "__value" it prints "!tag <value>" on the
\* same line, with no other entry (as a mapping value) "!tag {}", and
\* otherwise "!tag" followed by the remaining entries as an indented block.
C19_TaggedDisplay ==
    (pc = "printed" /\ outcome.v = TagDispTree(shape)) =>
        (text = TagDispText(shape) /\ ~PrintsTypeKey(text))

(***************************************************************************)
(* Documents handed to to_mx: a block mapping whose keys do or do not have *)
(* the form +name[label](value), or a value that is not a mapping          *)
(***************************************************************************)
\* the most entries the mapping has
MaxMxEntries == 2

\* keys written between double quotes
MxKeyWords ==
    {<<"+", "a", "[", "b", "]">>,
     <<"+", "a", "[", "b", "]", "(", "c", ")">>,
     <<"+", "[", "x", "]", "(", ")">>,
     <<"+", "a", "[", "b", "]", "(", "c", ")", "]">>,
     <<"a", "[", "b", "]">>,
     <<"+", "a">>,
     <<"+", "a", "[", "b">>,
     <<"+", "a", "[", "b", "]", "x">>,
     <<"+", "a", ")", "[", "b", "]">>,
     <<"+", "a", "[", "b", "]", "(", "c">>,
     <<"+", "a", "[", ")">>}

\* keys written plain: an Int, a Bool and a flow sequence
MxPlainKeys == {<<"5">>, <<"y", "e", "s">>, <<"[", "+", "k", "]">>}

MxKeySources == {<<DQ>> \o w \o <<DQ>> : w \in MxKeyWords} \cup MxPlainKeys

MxShapes ==
    [fam : {"mx"}, top : {"map"},
     keys : UNION {[1..n -> MxKeySources] : n \in 1..MaxMxEntries}]
    \cup [fam : {"mx"}, top : {"scalar", "int", "seq", "string"}, keys : {<<>>}]

\* entry i has the value i, the last entry a flow mapping
MxEntryText(keys, i) ==
    keys[i] \o <<":", " ">>
    \o (IF i = Len(keys) THEN <<"{", "p", ":", " ", "q", "}">> ELSE <<DigitSeq[i + 1]>>)
    \o <<LF>>

MxDoc(sh) ==
    CASE sh.top = "map"    -> Flatten([i \in 1..Len(sh.keys) |-> MxEntryText(sh.keys, i)])
      [] sh.top = "scalar" -> <<"+", "a", "[", "b", "]">>
      [] sh.top = "int"    -> <<"5">>
      [] sh.top = "seq"    -> <<"-", " ", "+", "a", "[", "b", "]", ":", " ", "1", LF>>
      [] sh.top = "string" -> <<"|", LF, " ", "h", "i", LF>>

\* the key has the form +name[label] or +name[label](value), with a name
\* free of brackets and parentheses
KeyConforms(key) ==
    \E i \in 2..Len(key) : \E j \in (i + 1)..Len(key) :
        /\ key[1] = "+"
        /\ key[i] = "["
        /\ \A n \in 2..(i - 1) : key[n] \notin {"[", "]", "(", ")"}
        /\ key[j] = "]"
        /\ \/ j = Len(key)
           \/ j + 1 < Len(key) /\ key[j + 1] = "(" /\ key[Len(key)] = ")"

\* to_mx has to answer with the error object
MustFail(v) == v.t # "Mapping" \/ \E i \in 1..NumEntries(v) : ~KeyConforms(EntryKeys(v)[i])

\* j is {"+error": {"__name": message, "__value": yaml}} and nothing else
IsMxError(j, yaml) ==
    /\ j.t = "JObject"
    /\ MemberKeys(j.kids) = <<ErrorName>>
    /\ j.kids[2].t = "JObject"
    /\ MemberKeys(j.kids[2].kids) = <<NameName, ValueKey.s>>
    /\ j.kids[2].kids[2].t = "JString"
    /\ j.kids[2].kids[2].s # <<>>
    /\ j.kids[2].kids[4] = JString(yaml)

InitMx == \E sh \in MxShapes : Start(sh, MxDoc(sh))

SpecMx == InitMx /\ [][Next]_vars

BareNames == {<<"s", "h", "o", "p">>, <<"a", ".", "b">>}

BareLabels == {<<"Y", "o", "u", "r", " ", "S", "h", "o", "p">>, <<"b">>}

\* the text between the parentheses
BareValues == {<<>>, <<"c">>, <<"u", ":", "/", "/", "i">>}

\* parens is FALSE for a key that ends with its label
BareShapes ==
    [fam : {"bare"}, name : BareNames, label : BareLabels, parens : {TRUE},
     value : BareValues, final : BOOLEAN]
    \cup [fam : {"bare"}, name : BareNames, label : BareLabels, parens : {FALSE},
          value : {<<>>}, final : BOOLEAN]

BareKey(sh) ==
    <<"+">> \o sh.name \o <<"[">> \o sh.label \o <<"]">>
    \o (IF sh.parens THEN <<"(">> \o sh.value \o <<")">> ELSE <<>>)

BareDoc(sh) == BareKey(sh) \o (IF sh.final THEN <<LF>> ELSE <<>>)

\* the value of the member of an object with the key
MemberOf(members, key) == members[2 * MemberAt(members, key)]

\* j is an object with the member key, itself an object with the member
\* "__name" label and, for a key with parentheses, "__value" value
HasMxMember(j, key, label, parens, value) ==
    /\ j.t = "JObject"
    /\ MemberAt(j.kids, key) # 0
    /\ MemberOf(j.kids, key).t = "JObject"
    /\ MemberAt(MemberOf(j.kids, key).kids, NameName) # 0
    /\ MemberOf(MemberOf(j.kids, key).kids, NameName) = JString(label)
    /\ parens =>
           /\ MemberAt(MemberOf(j.kids, key).kids, ValueKey.s) # 0
           /\ MemberOf(MemberOf(j.kids, key).kids, ValueKey.s) = JString(value)

InitBare == \E sh \in BareShapes : Start(sh, BareDoc(sh))

SpecBare == InitBare /\ [][Next]_vars

\* C21: to_mx applied to the parse of a bare mx key with no colon after it,
\* which parses to a scalar, recognises the pattern and returns an object
\* with the member "+name" whose "__name" is the bracket label and whose
\* "__value" is the parenthesised text (the empty string for "()").
C21_BareKeyRecognised ==
    pc = "mx" =>
        /\ json.k = "ok"
        /\ HasMxMember(json.v, <<"+">> \o shape.name, shape.label, shape.parens, shape.value)

(***************************************************************************)
(* Documents with a nested block collection followed by a line indented    *)
(* less than it                                                            *)
(***************************************************************************)
\* the most items or entries the nested collection has
MaxNested == 2

DedentTemplates == {"seqmap", "mapseq", "mapmap", "seqseq"}

\* what may stand before the dedented line
DedentSeps == {"none", "blank", "wsblank", "comment"}

\* where the dedented line returns to: the outermost collection, the one in
\* the middle, or an indentation between the two
DedentReturns(tpl) ==
    CASE tpl = "seqmap" -> {"outer", "mid"}
      [] tpl = "mapmap" -> {"outer", "mid", "between"}
      [] OTHER          -> {"outer"}

DedentShapes ==
    UNION {[fam : {"dedent"}, tpl : {tpl}, ind : {0, 2}, n : 1..MaxNested,
            sep : DedentSeps, ret : DedentReturns(tpl), final : BOOLEAN]
           : tpl \in DedentTemplates}

DedentSepText(sep) ==
    CASE sep = "none"    -> <<>>
      [] sep = "blank"   -> <<LF>>
      [] sep = "wsblank" -> <<" ", " ", " ", LF>>
      [] sep = "comment" -> <<" ", "#", " ", "x", LF>>

\* a line: indentation, text, line feed
DedentLine(indent, line) == PrintIndent(indent) \o line \o <<LF>>

DedentItemNames == <<"c", "e", "g">>

\* the n lines of the nested collection
DedentNestedLines(sh, indent, dash) ==
    Flatten([i \in 1..sh.n |->
               DedentLine(indent, IF dash THEN <<"-", " ", DedentItemNames[i]>>
                                  ELSE <<DedentItemNames[i], ":", " ", "1">>)])

DedentLastLine(sh, indent, line) ==
    PrintIndent(indent) \o line \o (IF sh.final THEN <<LF>> ELSE <<>>)

DedentDoc(sh) ==
    CASE sh.tpl = "seqmap" ->
             DedentLine(0, <<"t", ":">>)
             \o DedentLine(sh.ind, <<"-", " ", "n", ":", " ", "B">>)
             \o DedentLine(sh.ind + 2, <<"d", ":">>)
             \o DedentNestedLines(sh, sh.ind + 4, TRUE)
             \o DedentSepText(sh.sep)
             \o (IF sh.ret = "mid" THEN DedentLine(sh.ind + 2, <<"k", ":", " ", "2">>) ELSE <<>>)
             \o DedentLastLine(sh, sh.ind, <<"-", " ", "n", ":", " ", "R">>)
      [] sh.tpl = "mapseq" ->
             DedentLine(0, <<"f", ":">>)
             \o DedentNestedLines(sh, sh.ind, TRUE)
             \o DedentSepText(sh.sep)
             \o DedentLastLine(sh, 0, <<"k", ":", " ", "2">>)
      [] sh.tpl = "mapmap" ->
             DedentLine(0, <<"a", ":">>)
             \o DedentLine(sh.ind + 2, <<"b", ":">>)
             \o DedentNestedLines(sh, sh.ind + 4, FALSE)
             \o DedentSepText(sh.sep)
             \o DedentLastLine(sh, CASE sh.ret = "mid" -> sh.ind + 2
                                     [] sh.ret = "between" -> sh.ind + 1
                                     [] sh.ret = "outer" -> 0,
                               <<"k", ":", " ", "2">>)
      [] sh.tpl = "seqseq" ->
             DedentLine(0, <<"s", ":">>)
             \o DedentLine(sh.ind, <<"-", " ", "-", " ", "a">>)
             \o DedentNestedLines(sh, sh.ind + 2, TRUE)
             \o DedentSepText(sh.sep)
             \o DedentLastLine(sh, sh.ind, <<"-", " ", "z">>)

\* the items of the nested collection
DedentNestedItems(sh) == [i \in 1..sh.n |-> Scalar(<<DedentItemNames[i]>>)]

DedentNestedEntries(sh) ==
    Flatten([i \in 1..sh.n |-> <<Scalar(<<DedentItemNames[i]>>), IntV(<<"1">>)>>])

DedentLast == <<Scalar(<<"k">>), IntV(<<"2">>)>>

\* the tree in which the dedented line goes on the collection at its level
DedentTree(sh) ==
    CASE sh.tpl = "seqmap" ->
             MappingV(<<Scalar(<<"t">>), SequenceV(<<
                 MappingV(<<Scalar(<<"n">>), Scalar(<<"B">>),
                            Scalar(<<"d">>), SequenceV(DedentNestedItems(sh))>>
                          \o (IF sh.ret = "mid" THEN DedentLast ELSE <<>>)),
                 MappingV(<<Scalar(<<"n">>), Scalar(<<"R">>)>>)>>)>>)
      [] sh.tpl = "mapseq" ->
             MappingV(<<Scalar(<<"f">>), SequenceV(DedentNestedItems(sh))>> \o DedentLast)
      [] sh.tpl = "mapmap" ->
             IF sh.ret = "mid"
             THEN MappingV(<<Scalar(<<"a">>),
                             MappingV(<<Scalar(<<"b">>), MappingV(DedentNestedEntries(sh))>>
                                      \o DedentLast)>>)
             ELSE MappingV(<<Scalar(<<"a">>),
                             MappingV(<<Scalar(<<"b">>), MappingV(DedentNestedEntries(sh))>>)>>
                           \o DedentLast)
      [] sh.tpl = "seqseq" ->
             MappingV(<<Scalar(<<"s">>), SequenceV(<<
                 SequenceV(<<Scalar(<<"a">>)>> \o DedentNestedItems(sh)),
                 Scalar(<<"z">>)>>)>>)

InitDedent == \E sh \in DedentShapes : Start(sh, DedentDoc(sh))

SpecDedent == InitDedent /\ [][Next]_vars

\* C22: a block sequence or block mapping ends at the first later non-blank,
\* non-comment line whose indentation is strictly less than the indentation
\* recorded at its first item, without consuming that line's content; the
\* enclosing collection then continues with that same line: a dash item at
\* the outer sequence's indentation after a nested sequence becomes the next
\* item of the outer sequence, a key at the outer mapping's indentation its
\* next entry.
C22_DedentEndsCollection ==
    pc # "ready" => (IsOk(outcome) /\ outcome.v = DedentTree(shape))

\* the document of the regression test, with two nested items, has been
\* parsed: the outer sequence has two mapping items
C22_Witness ==
    /\ pc = "parsed"
    /\ shape.tpl = "seqmap" /\ shape.ind = 2 /\ shape.n = 2 /\ shape.ret = "outer"
    /\ NumEntries(outcome.v) = 1
    /\ Len(EntryValue(outcome.v, 1).kids) = 2
    /\ EntryValue(outcome.v, 1).kids[2] = MappingV(<<Scalar(<<"n">>), Scalar(<<"R">>)>>)

(***************************************************************************)
(* Documents with a block scalar in a nested collection, ended by a line   *)
(* indented less than the scalar                                           *)
(***************************************************************************)
\* the most content lines the scalar has
MaxScalarLines == 2

\* the most blank lines between the scalar and the line that ends it
MaxBlanksAfter == 1

ScalarEndShapes ==
    [fam : {"scalarend"}, tpl : {"map", "seq"}, ret : {"same", "outer"}, fold : BOOLEAN,
     chomp : {"clip", "strip", "keep"}, n : 1..MaxScalarLines, blanks : 0..MaxBlanksAfter,
     deep : {2, 4}, final : BOOLEAN]

ScalarEndLines == <<<<"a">>, <<"b", " ", "c">>, <<"d">>>>

ScalarEndIndicator(sh) ==
    <<(IF sh.fold THEN ">" ELSE "|")>>
    \o (CASE sh.chomp = "clip" -> <<>> [] sh.chomp = "strip" -> <<"-">> [] sh.chomp = "keep" -> <<"+">>)

ScalarEndDoc(sh) ==
    DedentLine(0, <<"o", ":">>)
    \o DedentLine(2, (IF sh.tpl = "map" THEN <<"k", ":", " ">> ELSE <<"-", " ">>)
                     \o ScalarEndIndicator(sh))
    \o Flatten([i \in 1..sh.n |-> DedentLine(2 + sh.deep, ScalarEndLines[i])])
    \o Repeat(LF, sh.blanks)
    \o (IF sh.ret = "outer" THEN <<"m", ":", " ", "1">>
        ELSE IF sh.tpl = "map" THEN <<" ", " ", "m", ":", " ", "1">>
        ELSE <<" ", " ", "-", " ", "z">>)
    \o (IF sh.final THEN <<LF>> ELSE <<>>)

\* the content lines joined as the style joins them
RECURSIVE ScalarEndJoined(_, _, _)
ScalarEndJoined(sh, i, acc) ==
    IF i > sh.n THEN acc
    ELSE ScalarEndJoined(sh, i + 1,
             IF i = 1 THEN ScalarEndLines[1]
             ELSE acc \o <<(IF sh.fold THEN " " ELSE LF)>> \o ScalarEndLines[i])

ScalarEndContent(sh) ==
    ScalarEndJoined(sh, 1, <<>>)
    \o (CASE sh.chomp = "strip" -> <<>>
          [] sh.chomp = "clip"  -> <<LF>>
          [] sh.chomp = "keep"  -> <<LF>> \o Repeat(LF, sh.blanks))

ScalarEndNext == <<Scalar(<<"m">>), IntV(<<"1">>)>>

\* the tree in which the line after the scalar goes on the collection at its
\* indentation
ScalarEndTree(sh) ==
    CASE sh.tpl = "map" /\ sh.ret = "same" ->
             MappingV(<<Scalar(<<"o">>),
                        MappingV(<<Scalar(<<"k">>), OwnedString(ScalarEndContent(sh))>>
                                 \o ScalarEndNext)>>)
      [] sh.tpl = "map" /\ sh.ret = "outer" ->
             MappingV(<<Scalar(<<"o">>),
                        MappingV(<<Scalar(<<"k">>), OwnedString(ScalarEndContent(sh))>>)>>
                      \o ScalarEndNext)
      [] sh.tpl = "seq" /\ sh.ret = "same" ->
             MappingV(<<Scalar(<<"o">>),
                        SequenceV(<<OwnedString(ScalarEndContent(sh)), Scalar(<<"z">>)>>)>>)
      [] sh.tpl = "seq" /\ sh.ret = "outer" ->
             MappingV(<<Scalar(<<"o">>), SequenceV(<<OwnedString(ScalarEndContent(sh))>>)>>
                      \o ScalarEndNext)

InitScalarEnd == \E sh \in ScalarEndShapes : Start(sh, ScalarEndDoc(sh))

SpecScalarEnd == InitScalarEnd /\ [][Next]_vars

\* C23: when a block scalar is ended by a line indented less than the block
\* indentation, the parser's indentation is set to that line's indentation
\* and none of the line's content is consumed or added to the scalar, so the
\* enclosing block mapping or sequence treats the line as if it had reached
\* it normally: it becomes the next entry, or ends the enclosing collection.
C23_ScalarEndedByDedent ==
    pc # "ready" => (IsOk(outcome) /\ outcome.v = ScalarEndTree(shape))

\* a two-line literal scalar in a nested mapping was ended by a key of the
\* outer mapping, which became the second entry of the outer mapping
C23_Witness ==
    /\ pc = "parsed"
    /\ shape.tpl = "map" /\ shape.ret = "outer" /\ ~shape.fold /\ shape.n = 2
    /\ NumEntries(outcome.v) = 2
    /\ EntryKey(outcome.v, 2) = Scalar(<<"m">>)
    /\ EntryValue(outcome.v, 1) =
           MappingV(<<Scalar(<<"k">>), OwnedString(<<"a", LF, "b", " ", "c", LF>>)>>)

(***************************************************************************)
(* The text of a block scalar before chomping, as the lines of the         *)
(* document give it                                                        *)
(***************************************************************************)
\* a line that is empty or holds only blanks, with or without a line feed
StatedBlank(sh, i) == LinesOf(sh)[i] \in {"blank", "ws"}

StatedNonBlank(sh) == {i \in 1..Len(LinesOf(sh)) : ~StatedBlank(sh, i)}

\* the block scalar has a content line of its own: the first line that is
\* not blank is not the next key
StatedHasContent(sh) ==
    /\ StatedNonBlank(sh) # {}
    /\ LinesOf(sh)[FirstOf(StatedNonBlank(sh))] \in {"text", "deep"}

StatedIndent(sh) == LineIndent(LinesOf(sh)[FirstOf(StatedNonBlank(sh))])

StatedDedent(sh) ==
    {i \in StatedNonBlank(sh) : LineIndent(LinesOf(sh)[i]) < StatedIndent(sh)}

StatedEnd(sh) ==
    IF StatedDedent(sh) = {} THEN Len(LinesOf(sh)) ELSE FirstOf(StatedDedent(sh)) - 1

StatedLast(sh) == LastOf({i \in StatedNonBlank(sh) : i <= StatedEnd(sh)})

\* a content line with the block indentation removed
StatedLineText(sh, i) ==
    Repeat(" ", LineIndent(LinesOf(sh)[i]) - StatedIndent(sh))
    \o <<(IF LinesOf(sh)[i] = "text" THEN "a" ELSE "b")>>

RECURSIVE StatedJoin(_, _, _, _, _)
\* lines i.. up to the last content line: a blank line is one newline, a
\* content line is its text, after the separator when the line before it is
\* a content line (and, when always is set, when a content line came before)
StatedJoin(sh, i, acc, sepText, always) ==
    IF i > StatedLast(sh) THEN acc
    ELSE IF StatedBlank(sh, i) THEN StatedJoin(sh, i + 1, Append(acc, LF), sepText, always)
    ELSE StatedJoin(sh, i + 1,
             acc \o (IF i > 1 /\ (IF always THEN \E j \in 1..(i - 1) : ~StatedBlank(sh, j)
                                  ELSE ~StatedBlank(sh, i - 1))
                     THEN <<sepText>> ELSE <<>>)
                 \o StatedLineText(sh, i),
             sepText, always)

\* a text without the line feeds it ends with
WithoutTrailingNewlines(s) == SubSeq(s, 1, Len(s) - TrailingNewlines(s))

\* C24: the text of a literal block scalar before chomping is its content
\* lines, each without the block indentation and with any extra indentation,
\* joined by single newlines, and every blank line before the last content
\* line (also one before the first content line) adds exactly one more
\* newline and nothing else; a blank last line of the input adds no
\* character other than a newline.
C24_LiteralText ==
    (pc # "ready" /\ shape.ind = "|" /\ StatedHasContent(shape) /\ BlockParsed(shape, outcome)) =>
        WithoutTrailingNewlines(BlockResult(shape, outcome))
            = StatedJoin(shape, 1, <<>>, LF, TRUE)

\* the first line after the indicator is a content line and no line of
\* blanks ends the input without a line feed
FoldedPlain(sh) ==
    /\ sh.lines # <<>>
    /\ sh.lines[1] \in {"text", "deep"}
    /\ sh.final \/ sh.lines[Len(sh.lines)] # "ws"

\* C25: in a folded block scalar two directly consecutive content lines are
\* joined by exactly one space, and two content lines with k >= 1 blank
\* lines between them are joined by k newlines and no space.
C25_FoldedText ==
    (pc # "ready" /\ shape.ind = ">" /\ FoldedPlain(shape) /\ BlockParsed(shape, outcome)) =>
        WithoutTrailingNewlines(BlockResult(shape, outcome))
            = StatedJoin(shape, 1, <<>>, " ", FALSE)

(***************************************************************************)
(* The context stack under sequences of start_context and end_context      *)
(***************************************************************************)
\* the deepest context stack
MaxCtxDepth == 3

ContextKinds == {"Flow", "FlowMapping", "Block", "BlockMapping"}

\* the call just made: op is "new", "start" or "end", before is the stack
\* the call found
CtxCall(op, kind, before) == [fam |-> "ctx", op |-> op, kind |-> kind, before |-> before]

\* Parser::new: both stacks are empty
InitCtx ==
    /\ shape = CtxCall("new", "Flow", <<>>)
    /\ input = <<"a">>
    /\ pc = "ctx"
    /\ outcome = Ok(Nil, NewParser(<<"a">>))
    /\ text = <<>>
    /\ again = NotRun
    /\ json = JsonNotRun

\* self.start_context(kind)?
DoStartContext ==
    /\ pc = "ctx"
    /\ IsOk(outcome)
    /\ Len(outcome.st.contexts) < MaxCtxDepth
    /\ \E kind \in ContextKinds :
          /\ shape' = CtxCall("start", kind, outcome.st.contexts)
          /\ outcome' = StartContext(kind, outcome.st)
    /\ UNCHANGED <<input, pc, text, again, json>>

\* self.end_context(kind)?
DoEndContext ==
    /\ pc = "ctx"
    /\ IsOk(outcome)
    /\ \E kind \in ContextKinds :
          /\ shape' = CtxCall("end", kind, outcome.st.contexts)
          /\ outcome' = EndContext(kind, outcome.st)
    /\ UNCHANGED <<input, pc, text, again, json>>

NextCtx == DoStartContext \/ DoEndContext

SpecCtx == InitCtx /\ [][NextCtx]_vars

\* C26: start_context pushes FlowIn for kind Flow and FlowKey for kind
\* FlowMapping whatever the active context is; for kind Block it pushes
\* BlockOut on an empty stack and BlockIn when the top is a block context;
\* when the top is a flow context it pushes nothing and returns the error
\* "block collections cannot be values in flow collections".
C26_StartContext ==
    shape.op = "start" =>
        CASE shape.kind = "Flow" ->
                 IsOk(outcome) /\ outcome.st.contexts = Append(shape.before, "FlowIn")
          [] shape.kind = "FlowMapping" ->
                 IsOk(outcome) /\ outcome.st.contexts = Append(shape.before, "FlowKey")
          [] shape.kind = "Block" /\ shape.before = <<>> ->
                 IsOk(outcome) /\ outcome.st.contexts = <<"BlockOut">>
          [] shape.kind = "Block" /\ shape.before # <<>>
               /\ shape.before[Len(shape.before)] \in {"BlockIn", "BlockOut", "BlockKey"} ->
                 IsOk(outcome) /\ outcome.st.contexts = Append(shape.before, "BlockIn")
          [] shape.kind = "Block" /\ shape.before # <<>>
               /\ shape.before[Len(shape.before)] \in {"FlowIn", "FlowOut", "FlowKey"} ->
                 /\ outcome.k = "err"
                 /\ outcome.msg = "block collections cannot be values in flow collections"
                 /\ outcome.st.contexts = shape.before
          [] shape.kind = "BlockMapping" -> TRUE

\* a block collection was started under a flow mapping key inside a block
\* sequence, and refused
C26_Witness ==
    /\ shape.op = "start"
    /\ shape.kind = "Block"
    /\ shape.before = <<"BlockOut", "FlowKey">>
    /\ outcome.k = "err"

\* the contexts that belong to a kind
KindContexts(kind) ==
    CASE kind = "Flow" -> {"FlowIn", "FlowOut"}
      [] kind = "FlowMapping" -> {"FlowKey"}
      [] kind = "Block" -> {"BlockIn", "BlockOut"}
      [] kind = "BlockMapping" -> {"BlockKey"}

\* C27: end_context(kind) returns Ok only when the context popped from the
\* top of the stack belongs to kind; on a mismatch or an empty stack it
\* returns a ParseError and does not panic.
C27_EndContext ==
    shape.op = "end" =>
        /\ outcome.k \in {"ok", "err"}
        /\ IsOk(outcome) <=>
               /\ shape.before # <<>>
               /\ shape.before[Len(shape.before)] \in KindContexts(shape.kind)
        /\ shape.before # <<>> =>
               outcome.st.contexts = SubSeq(shape.before, 1, Len(shape.before) - 1)

\* end_context(Flow) found the context of a flow mapping key on top and
\* returned an error
C27_Witness ==
    /\ shape.op = "end"
    /\ shape.kind = "Flow"
    /\ shape.before = <<"FlowIn", "FlowKey">>
    /\ outcome.k = "err"

\* end_context(Block) found BlockIn on top and returned Ok
C27_WitnessOk ==
    /\ shape.op = "end"
    /\ shape.kind = "Block"
    /\ shape.before = <<"BlockOut", "BlockIn">>
    /\ IsOk(outcome)

(***************************************************************************)
(* What of the input a returned tree accounts for                          *)
(***************************************************************************)
IsLetter(c) == c \in LowerLetters \cup Digits

RECURSIVE LettersOutsideComments(_, _, _)
\* the number of letters and digits of a text that are not part of a
\* comment, where a comment runs from '#' to the end of its line
LettersOutsideComments(src, i, inComment) ==
    IF i > Len(src) THEN 0
    ELSE IF IsLinebreak(src[i]) THEN LettersOutsideComments(src, i + 1, FALSE)
    ELSE IF inComment THEN LettersOutsideComments(src, i + 1, TRUE)
    ELSE IF src[i] = "#" THEN LettersOutsideComments(src, i + 1, TRUE)
    ELSE (IF IsLetter(src[i]) THEN 1 ELSE 0) + LettersOutsideComments(src, i + 1, FALSE)

LettersOfText(s) == Cardinality({i \in 1..Len(s) : IsLetter(s[i])})

RECURSIVE LettersOfValue(_)
\* the number of letters and digits in the scalars of a tree
LettersOfValue(v) ==
    IF v.t \in {"Mapping", "Sequence"}
    THEN LET RECURSIVE Sum(_)
             Sum(i) == IF i > Len(v.kids) THEN 0 ELSE LettersOfValue(v.kids[i]) + Sum(i + 1)
         IN Sum(1)
    ELSE IF v.t = "Nil" THEN 0
    ELSE LettersOfText(v.s)

\* C28: whenever parse returns Ok the whole input has been accounted for:
\* every byte is part of the returned value or was skipped as whitespace,
\* line break, comment or '---' marker.  A letter or digit outside a comment
\* is none of the skipped kinds, so each one is part of the returned value.
C28_InputAccounted ==
    (pc # "ready" /\ IsOk(outcome)) =>
        LettersOfValue(outcome.v) >= LettersOutsideComments(input, 1, FALSE)

\* C29: for every input parse returns Ok or Err without panicking: neither
\* the unreachable! arm of the dispatcher for '-', nor the slice of
\* slice_range, nor `len - 1` in at_end faults.
C29_NeverPanics ==
    /\ pc # "ready" => outcome.k # "panic"
    /\ pc = "reparsed" => again.k # "panic"

(***************************************************************************)
(* Documents made of the tokens that open, close and fill collections      *)
(***************************************************************************)
\* the most tokens of a generated document
MaxTokens == 5

StackTokens == {<<"a">>, <<":", " ">>, <<"{">>, <<"}">>, <<"[">>, <<"]">>, <<",">>,
                <<"-", " ">>, <<LF>>, <<" ", " ">>}

TokenLists == UNION {[1..n -> StackTokens] : n \in 1..MaxTokens}

InitStacks == \E toks \in TokenLists : Start([fam |-> "tokens", toks |-> toks], Flatten(toks))

SpecStacks == InitStacks /\ [][Next]_vars

\* the errors of end_context and pop_if_match
MismatchMessages == {"expected context but no contexts remained",
                     "expected but failed to end context",
                     "token was not expected"}

StacksBalanced(r) ==
    /\ r.msg \notin MismatchMessages
    /\ IsOk(r) => (r.st.contexts = <<>> /\ r.st.expected = <<>>)

\* C30: the context stack and the expected-token stack are used in a
\* balanced way: no input makes end_context or pop_if_match return its
\* mismatch error, and whenever parse returns Ok both stacks are empty.
C30_StacksBalanced ==
    /\ pc # "ready" => StacksBalanced(outcome)
    /\ pc = "reparsed" => StacksBalanced(again)

\* a flow mapping with one entry was parsed: '}' and ':' were pushed on the
\* expected-token stack and popped, FlowKey and FlowIn were pushed on the
\* context stack and popped
C30_Witness ==
    /\ pc = "parsed"
    /\ input = <<"{", "a", ":", " ", "a", "}">>
    /\ IsOk(outcome)
    /\ outcome.v = MappingV(<<Scalar(<<"a">>), Scalar(<<"a">>)>>)
    /\ outcome.st.contexts = <<>>
    /\ outcome.st.expected = <<>>

=============================================================================
